---- MODULE Spec2Model ----
(***************************************************************************)
(* A model of the AD -> Tableau synchronisation scripts ad2tabsync.py and  *)
(* tableausync.py: the directory client's recursive group expansion, the   *)
(* stale-administrator mail gate, and the per-site reconciliation of       *)
(* users and groups.                                                       *)
(***************************************************************************)
EXTENDS Integers, Sequences, FiniteSets, TLC

VARIABLES
    \* ---- the directory snapshot (read-only for the scripts)
    member,        \* group DN -> set of member DNs (the group's member attribute)
    enabled,       \* person entries the "enabled, not expired" query matches
    ou,            \* site name -> group DNs directly under OU=<site>,<tableau_root_ou>
    \* ---- the AD client object
    group_list,    \* the default argument list of AD._get_group_members
    \* ---- direct calls of the expansion (specification SpecAD)
    last,          \* the most recent expansion call and what it returned
    first,         \* call key -> the set the first call with that key returned
    ncalls,        \* number of expansion calls made so far
    \* ---- SendMail (specification SpecMail)
    sent_state,    \* SendMail.sent_state: name -> time of the last letter, or Never
    pickle_file,   \* the content of SendMail.pickle, or NoFile
    now,           \* the clock, in ticks
    mail_event,    \* the most recent call of send_mail_old_serveradministrator
    \* ---- the run: configuration and position
    script,        \* which script runs: "ad2tabsync" or "tableausync"
    noop,          \* ad2tabsync's self.noop (= not --noop), tableausync's
                   \* do_something: TRUE when mutating calls are issued
    serviceaccounts, \* the configured service accounts
    common_sites,  \* the sites still to reconcile, in order
    site_name,     \* the site being reconciled
    pc,            \* the position in the run
    return_code,   \* run_sync's return_code
    \* ---- the Tableau server, per site
    tab_users,     \* site -> name -> site role, or Absent
    tab_fullname,  \* site -> name -> "ad" (equal to the directory's name) or "old"
    wb_owner,      \* site -> the owner of the site's workbook, or "none"
    wb_shared,     \* site -> whether every site user may read the workbook
    tab_groups,    \* site -> the names of the site's groups
    tab_members,   \* site -> group name -> the names of the group's users
    \* ---- locals of the reconciliation of one site
    tableau_all_site_users, \* the user listing taken at the start: name -> role
    ad_all_site_users,      \* the account names get_all_site_users returned
    diff,          \* old_users and new_users as first computed
    old_users,     \* the stale users still to process
    new_users,     \* the fresh users still to process
    tableau_site_users,     \* the users the attribute pass has still to visit
    new_groups,    \* the groups the group phase is to create
    old_groups,    \* the groups the group phase is to delete
    groups_todo,   \* the groups the membership phase has still to visit
    \* ---- history
    calls,         \* the mutating calls (and letters) issued so far
    mcalls,        \* the add_user and remove_user calls issued so far
    tab_users0,    \* tab_users when the run started
    site_log,      \* the sites run_sync's loop is through with, and how each ended
    \* ---- the process
    exit_code,     \* the exit status of the process, or Running
    run,           \* 1 in the first process, 2 in a second one started after it
    sites0,        \* common_sites as run_sync computed it
    run1,          \* what the first process left: exit status, site_log, calls
    nfaults,       \* the faults raised so far by the Tableau client or the directory
    search_failed, \* whether a directory search of this process has failed
    \* ---- the permission pruners (specification SpecPruner)
    tool,          \* which pruner runs, or "none"
    tool_noop,     \* the pruner's --noop flag: TRUE in a dry run
    conf_projects, \* clean_tableau_permissions: the denylist for projects
    conf,          \* the denylist entries for workbooks and data sources, in order
    srv_principals,\* the groups and users that exist on the server
    res_tags,      \* site -> workbook or data source -> its tags
    res_grants,    \* site -> workbook or data source -> the grantees of its rules
    proj_parent,   \* site -> project -> its parent_id: a project, NoParent or Unlisted
    proj_grants,   \* site -> project -> category -> the grantees of its rules
    tableau_projects,           \* the projects the ordering loop has still to place
    tableau_projects_by_parent, \* the projects placed so far, in order
    tool_todo,     \* the steps the pruner has still to take, in order
    tool_pc,       \* "run", "done", "crashed" (an exception left main) or "hung"
    tool_calls,    \* the delete-permission calls issued so far
    tool_log,      \* the removals logged so far
    \* ---- hrms_report_sender.py (specification SpecHrms)
    mail_to,       \* whether the option -m/--mail_to was given
    mail_states,   \* MailStatus._data: username -> the milestones set to True
    mail_states_file, \* the content of hrms_report_sender_email_states.json
    days_left,     \* username -> the days from now to the termination date
    tableau_resources, \* username -> whether the run found workbooks or
                       \* projects the user owns
    report_data,   \* the leaving users the run has still to evaluate, in order
    hrms_pc,       \* "idle" between runs, "run", or "crashed"
    hrms_event,    \* the most recent evaluation of a user
    mails_sent     \* username -> the milestone mails sent so far, in order

adVars == <<member, enabled, ou, group_list>>
callVars == <<last, first, ncalls>>
mailVars == <<sent_state, pickle_file, now, mail_event>>
runVars == <<script, noop, serviceaccounts, common_sites, site_name, pc, return_code>>
runVarsButPc == <<script, noop, serviceaccounts, common_sites, site_name, return_code>>
tabVars == <<tab_users, tab_fullname, wb_owner, wb_shared, tab_groups>>
localVars == <<tableau_all_site_users, ad_all_site_users, diff, old_users, new_users,
               tableau_site_users, new_groups, old_groups>>
histVars == <<calls, tab_users0>>
memVars == <<tab_members, groups_todo, mcalls>>
procVars == <<site_log, exit_code, run, sites0, run1, nfaults, search_failed>>
syncVars == <<runVars, tabVars, localVars, histVars, memVars, procVars>>
prunerVars == <<tool, tool_noop, conf_projects, conf, srv_principals, res_tags,
                res_grants, proj_parent, proj_grants, tableau_projects,
                tableau_projects_by_parent, tool_todo, tool_pc, tool_calls, tool_log>>
hrmsVars == <<mail_to, mail_states, mail_states_file, days_left,
              tableau_resources, report_data, hrms_pc, hrms_event, mails_sent>>
toolVars == <<prunerVars, hrmsVars>>
vars == <<adVars, callVars, mailVars, syncVars, toolVars>>

----------------------------------------------------------------------------
(* Universes and bounds *)

\* sAMAccountName of the person entries.  Active Directory keeps the account
\* name unique, so a person entry is identified here by its account name.
Persons == {"alice", "bob", "carol"}
\* Distinguished names of the directory groups.
GroupDNs == {"g1", "g2", "g3", "All Users", "F_x"}
Sites == {"Sales", "ERS"}

\* groups that may have members in the expansion study
ExpGroups == {"g1", "g2", "g3"}

\* persons that may be members of a group in the expansion study
ExpPersons == {"alice", "bob"}
\* at most this many member links in a directory drawn for the expansion study
MaxEdges == 4
\* at most this many expansion calls in one process
MaxCalls == 2

\* The order in which a member attribute lists its values.  The graphs are
\* drawn over all labellings, so a fixed order over the labels loses no
\* generality for one shared order.
DNOrder == <<"g1", "g2", "g3", "All Users", "F_x", "alice", "bob", "carol">>

NoCall == [op |-> "none", key |-> "none", users |-> <<>>, ok |-> TRUE]
NoResult == {"<no call yet>"}

----------------------------------------------------------------------------
(* AD: the directory client *)

Range(s) == {s[i] : i \in 1..Len(s)}

NoDuplicates(s) == \A i, j \in 1..Len(s) : i # j => s[i] # s[j]

\* result[0].member: the values of the member attribute, in directory order
MemberList(dn) == SelectSeq(DNOrder, LAMBDA x : x \in member[dn])

\* ad_object.objectCategory.value.startswith('CN=Person')
IsPerson(dn) == dn \in Persons
\* ad_object.objectCategory.value.startswith('CN=Group')
IsGroup(dn) == dn \in GroupDNs

\* AD._is_user_enabled: the point-in-time query returns an entry
IsUserEnabled(dn) == dn \in enabled

\* any(user.sAMAccountName.value == x for user in users)
HasUser(users, x) == \E i \in 1..Len(users) : users[i] = x

\* a variant of the visited test that forgets every group
VisitedNever(dn, gl) == FALSE
\* any(ad_object.distinguishedName.value == group for group in group_list)
Visited(dn, gl) == \E i \in 1..Len(gl) : gl[i] = dn

\* [users.append(newuser) for newuser in more if not any(... for user in users)]
RECURSIVE AppendNew(_, _)
AppendNew(users, more) ==
    IF more = <<>> THEN users
    ELSE AppendNew(IF HasUser(users, Head(more)) THEN users
                   ELSE Append(users, Head(more)),
                   Tail(more))

\* Each nested call is made for a DN that was just appended to group_list and
\* was not in it before, so a run that terminates never nests deeper than
\* this; `ok` is FALSE in the result of a call that nests deeper.
MaxDepth == Cardinality(GroupDNs) + 1

\* AD._get_group_members(dn, group_list): GetGroupMembers is the call,
\* ForMembers the loop `for member in result[0].member` from the member list
\* ms on, with the users collected so far.  A group without members has no
\* member attribute, and the loop is skipped (MemberList is empty).
RECURSIVE GetGroupMembers(_, _, _)
RECURSIVE ForMembers(_, _, _, _)
GetGroupMembers(dn, gl, fuel) ==
    IF fuel = 0
    THEN [users |-> <<>>, group_list |-> gl, ok |-> FALSE]
    ELSE ForMembers(MemberList(dn), <<>>, gl, fuel)
ForMembers(ms, users, gl, fuel) ==
    IF ms = <<>>
    THEN [users |-> users, group_list |-> gl, ok |-> TRUE]
    ELSE LET m == Head(ms)
             u1 == IF IsPerson(m) /\ ~HasUser(users, m) /\ IsUserEnabled(m)
                   THEN Append(users, m)
                   ELSE users
         IN  IF IsGroup(m) /\ ~Visited(m, gl)
             THEN LET r == GetGroupMembers(m, Append(gl, m), fuel - 1)
                  IN  IF ~r.ok
                      THEN [users |-> u1, group_list |-> r.group_list, ok |-> FALSE]
                      ELSE ForMembers(Tail(ms), AppendNew(u1, r.users),
                                      r.group_list, fuel)
             ELSE ForMembers(Tail(ms), u1, gl, fuel)

\* AD.get_site_groups: the groups directly under the site's OU, in directory order
GetSiteGroups(sitename) == SelectSeq(DNOrder, LAMBDA x : x \in ou[sitename])

\* AD.get_all_site_users: the loop over the site's groups from gs on; every
\* call of _get_group_members leaves group_list to its default, the one list
\* object of the process.
RECURSIVE ForSiteGroups(_, _, _)
ForSiteGroups(gs, site_users, gl) ==
    IF gs = <<>>
    THEN [users |-> site_users, group_list |-> gl, ok |-> TRUE]
    ELSE LET r == GetGroupMembers(Head(gs), gl, MaxDepth)
         IN  IF ~r.ok
             THEN [users |-> site_users, group_list |-> r.group_list, ok |-> FALSE]
             ELSE ForSiteGroups(Tail(gs), AppendNew(site_users, r.users), r.group_list)
GetAllSiteUsers(sitename, gl) == ForSiteGroups(GetSiteGroups(sitename), <<>>, gl)

\* AD.get_members_by_groupname: the group is looked up by name and expanded.
\* Group names are unique in the directories drawn here, and a group's DN
\* stands for its name.
GetMembersByGroupname(groupname, gl) == GetGroupMembers(groupname, gl, MaxDepth)

----------------------------------------------------------------------------
(* What the expansion is meant to return *)

GroupEdges(g) == member[g] \cap GroupDNs

RECURSIVE ReachFrom(_, _)
ReachFrom(frontier, seen) ==
    LET next == (UNION {GroupEdges(g) : g \in frontier}) \ seen
    IN  IF next = {} THEN seen ELSE ReachFrom(next, seen \cup next)
\* the groups reachable from dn through nested groups, dn included
Reach(dn) == ReachFrom({dn}, {dn})
\* the enabled persons that are direct or nested members of dn
EnabledMembers(dn) == {p \in enabled : \E g \in Reach(dn) : p \in member[g]}
EnabledSiteMembers(s) == UNION {EnabledMembers(g) : g \in ou[s]}

\* some group is reachable from itself through one or more member links
OnCycle(g) == \E h \in GroupEdges(g) : g \in Reach(h)
HasCycle == \E g \in GroupDNs : OnCycle(g)

----------------------------------------------------------------------------
(* SendMail: the letter about a stale server administrator *)

\* the subjects of the letters drawn for the mail study
MailSubjects == {"alice", "bob"}
\* clock ticks in a day (the resolution of the model's clock)
TicksPerDay == 2
\* the clock stops after this many days
MaxDays == 5
\* `(current_date - self.sent_state.get(name)).days > 3`
RateLimitDays == 3

\* what self.sent_state.get(name) is for a name with no entry (None), kept
\* apart from every time of the clock
Never == -1
\* the pickle file is a sequence: empty when there is no file, else the one
\* dictionary dumped into it
NoFile == <<>>
NoMailEvent == [name |-> "none", at |-> 0, prev |-> [n \in MailSubjects |-> Never],
                sends |-> 0, outcome |-> "none"]

\* timedelta.days of a non-negative difference: whole days, rounded down
TimedeltaDays(ticks) == ticks \div TicksPerDay

\* the two branches of send_mail_old_serveradministrator that call send_mail
LetterDue(state, name, current_date) ==
    \/ state[name] = Never
    \/ TimedeltaDays(current_date - state[name]) > RateLimitDays

\* what send_mail does with the letter: it is handed to the SMTP server, the
----------------------------------------------------------------------------
(* The permission pruners: clean_tableau_permissions.py,
   rm_guest_allusers_from_permissions.py and remove_group_all_users.py *)

\* the server's sites, workbooks, data sources and projects, in listing order
PSites == <<"s1", "s2">>
WorkbookOrder == <<"w1", "w2">>
Workbooks == Range(WorkbookOrder)
Datasources == {"d1"}
ProjectOrder == <<"p1", "p2", "p3">>
Projects == Range(ProjectOrder)

\* the grantees of permission rules and their grantee.tag_name
Principals == {"All Users", "guest"}
PrincipalKind == [x \in Principals |-> IF x = "All Users" THEN "group" ELSE "user"]

\* the exemption tag of the configuration (ignore_tag; 'all_users_report'
\* in remove_group_all_users.py), and dict.get('tag') of an entry without one
KeepTag == "keep"
NoTag == "<none>"

\* the permission categories of a project: the six default-permission
\* templates and the project's own rules
Categories == {"datarole", "datasource", "flow", "lens", "metric", "workbook",
               "explicit"}

\* parent_id of a top-level project, and of one whose parent is not listed
NoParent == "<top>"
Unlisted == "<unlisted>"

\* the id of the group or user with the entry's name, if there is one
Found(entry) ==
    /\ entry.name \in srv_principals
    /\ PrincipalKind[entry.name] = (IF entry.group THEN "group" ELSE "user")

\* the denylist entry with this name, if the lookup found its principal
FoundEntries(entries, name) == {e \in entries : e.name = name /\ Found(e)}

\* current_site_conf: the entries of a denylist that the configuration has
\* under this site (none when the site is not in conf['sites'])
SiteConf(site, entries) == {e \in entries : site \in Range(e.sites)}

PCall(op, site, item, grantee) ==
    [op |-> op, site |-> site, item |-> item, grantee |-> grantee]
PLog(level, site, item, grantee) ==
    [level |-> level, site |-> site, item |-> item, grantee |-> grantee]
Step(step, site, entry) == [step |-> step, site |-> site, entry |-> entry]

RECURSIVE Concat(_)
Concat(ss) == IF ss = <<>> THEN <<>> ELSE Head(ss) \o Concat(Tail(ss))

\* the rest of the run after the step at the head of tool_todo
Proceed(rest) ==
    /\ tool_todo' = rest
    /\ tool_pc' = IF rest = <<>> THEN "done" ELSE "run"

AtStep(step) ==
    /\ tool_pc = "run"
    /\ tool_todo # <<>>
    /\ Head(tool_todo).step = step

\* a sweep that does not look at the resource's tags
SweptWhateverTheTag(site, items, entries) ==
    {<<item, g>> \in items \X Principals :
        /\ g \in res_grants[site][item]
        /\ FoundEntries(entries, g) # {}}

\* the rules of resources `items` a sweep removes: those of the denylisted
\* grantees on the resources that do not carry the grantee's tag
Swept(site, items, entries) ==
    {<<item, g>> \in items \X Principals :
        /\ g \in res_grants[site][item]
        /\ \E e \in FoundEntries(entries, g) : e.tag \notin res_tags[site][item]}

WithoutRules(site, removed) ==
    [res_grants EXCEPT ![site] =
        [item \in DOMAIN res_grants[site] |->
            res_grants[site][item] \ {g \in Principals : <<item, g>> \in removed}]]

\* ---- clean_tableau_permissions.py

\* start: the site's projects are listed and split into the top-level ones
\* and the others
CleanListProjects ==
    /\ tool = "clean"
    /\ AtStep("list")
    /\ LET site == Head(tool_todo).site
       IN  /\ tableau_projects_by_parent' =
                 SelectSeq(ProjectOrder, LAMBDA p : proj_parent[site][p] = NoParent)
           /\ tableau_projects' =
                 SelectSeq(ProjectOrder, LAMBDA p : proj_parent[site][p] # NoParent)
    /\ Proceed(Tail(tool_todo))
    /\ UNCHANGED <<tool, tool_noop, conf_projects, conf, srv_principals, res_tags,
                   res_grants, proj_parent, proj_grants, tool_calls, tool_log>>

RemoveAt(seq, i) == SubSeq(seq, 1, i - 1) \o SubSeq(seq, i + 1, Len(seq))

\* one pass of `for index, p in enumerate(tableau_projects)`: a project whose
\* parent is placed is popped and appended, and the enumeration goes on with
\* the next index of the shortened list
RECURSIVE OrderPass(_, _, _, _)
OrderPass(site, todo, placed, index) ==
    IF index > Len(todo) THEN [todo |-> todo, placed |-> placed]
    ELSE IF proj_parent[site][todo[index]] \in Range(placed)
         THEN OrderPass(site, RemoveAt(todo, index), Append(placed, todo[index]),
                        index + 1)
         ELSE OrderPass(site, todo, placed, index + 1)

\* start: one iteration of `while tableau_projects`
CleanOrderPass ==
    /\ tool = "clean"
    /\ AtStep("order")
    /\ LET site == Head(tool_todo).site
           pass == OrderPass(site, tableau_projects, tableau_projects_by_parent, 1)
       IN  IF tableau_projects = <<>>
           THEN /\ Proceed(Tail(tool_todo))
                /\ UNCHANGED <<tableau_projects, tableau_projects_by_parent>>
           ELSE IF pass.todo = tableau_projects
           THEN \* nothing was placed: every later iteration is the same
                /\ tool_pc' = "hung"
                /\ UNCHANGED <<tool_todo, tableau_projects,
                               tableau_projects_by_parent>>
           ELSE /\ tableau_projects' = pass.todo
                /\ tableau_projects_by_parent' = pass.placed
                /\ UNCHANGED <<tool_todo, tool_pc>>
    /\ UNCHANGED <<tool, tool_noop, conf_projects, conf, srv_principals, res_tags,
                   res_grants, proj_parent, proj_grants, tool_calls, tool_log>>

\* a project sweep that cleans the rules of the project itself and leaves
\* the six default-permission templates alone
CleanProjectsOwnRulesOnly ==
    /\ tool = "clean"
    /\ AtStep("projects")
    /\ LET site == Head(tool_todo).site
           removed == {r \in (Range(tableau_projects_by_parent) \X Categories)
                                \X Principals :
                          /\ r[1][2] = "explicit"
                          /\ r[2] \in proj_grants[site][r[1][1]][r[1][2]]
                          /\ FoundEntries(SiteConf(site, conf_projects), r[2]) # {}}
       IN  /\ tool_log' = tool_log \cup
                 {PLog("info", site, r[1][1] \o ":" \o r[1][2], r[2]) : r \in removed}
           /\ IF tool_noop
              THEN UNCHANGED <<proj_grants, tool_calls>>
              ELSE /\ tool_calls' = tool_calls \cup
                        {PCall("projects.delete:" \o r[1][2], site, r[1][1], r[2]) :
                            r \in removed}
                   /\ proj_grants' = [proj_grants EXCEPT ![site] =
                        [p \in Projects |-> [c \in Categories |->
                            proj_grants[site][p][c] \
                                {g \in Principals : <<<<p, c>>, g>> \in removed}]]]
    /\ Proceed(Tail(tool_todo))
    /\ UNCHANGED <<tool, tool_noop, conf_projects, conf, srv_principals, res_tags,
                   res_grants, proj_parent, tableau_projects,
                   tableau_projects_by_parent>>

\* start: for every placed project and every category, the rules whose
\* grantee id is in pr_items_clean for the grantee's kind
CleanProjects ==
    /\ tool = "clean"
    /\ AtStep("projects")
    /\ LET site == Head(tool_todo).site
           removed == {r \in (Range(tableau_projects_by_parent) \X Categories)
                                \X Principals :
                          /\ r[2] \in proj_grants[site][r[1][1]][r[1][2]]
                          /\ FoundEntries(SiteConf(site, conf_projects), r[2]) # {}}
       IN  /\ tool_log' = tool_log \cup
                 {PLog("info", site, r[1][1] \o ":" \o r[1][2], r[2]) : r \in removed}
           /\ IF tool_noop
              THEN UNCHANGED <<proj_grants, tool_calls>>
              ELSE /\ tool_calls' = tool_calls \cup
                        {PCall("projects.delete:" \o r[1][2], site, r[1][1], r[2]) :
                            r \in removed}
                   /\ proj_grants' = [proj_grants EXCEPT ![site] =
                        [p \in Projects |-> [c \in Categories |->
                            proj_grants[site][p][c] \
                                {g \in Principals : <<<<p, c>>, g>> \in removed}]]]
    /\ Proceed(Tail(tool_todo))
    /\ UNCHANGED <<tool, tool_noop, conf_projects, conf, srv_principals, res_tags,
                   res_grants, proj_parent, tableau_projects,
                   tableau_projects_by_parent>>

\* a workbook sweep whose delete call is not under `if not self.noop`
CleanWorkbooksUngated ==
    /\ tool = "clean"
    /\ AtStep("workbooks")
    /\ LET site == Head(tool_todo).site
           removed == Swept(site, Workbooks, SiteConf(site, Range(conf)))
       IN  /\ tool_log' = tool_log \cup
                 {PLog("info", site, r[1], r[2]) : r \in removed}
           /\ tool_calls' = tool_calls \cup
                 {PCall("workbooks.delete_permission", site, r[1], r[2]) :
                     r \in removed}
           /\ res_grants' = WithoutRules(site, removed)
    /\ Proceed(Tail(tool_todo))
    /\ UNCHANGED <<tool, tool_noop, conf_projects, conf, srv_principals, res_tags,
                   proj_parent, proj_grants, tableau_projects,
                   tableau_projects_by_parent>>

\* start: for every workbook of the site, the rules of the users and groups
\* in clean_wb_users and clean_wb_groups, unless the workbook has their tag
CleanWorkbooks ==
    /\ tool = "clean"
    /\ AtStep("workbooks")
    /\ LET site == Head(tool_todo).site
           removed == Swept(site, Workbooks, SiteConf(site, Range(conf)))
       IN  /\ tool_log' = tool_log \cup
                 {PLog("info", site, r[1], r[2]) : r \in removed}
           /\ IF tool_noop
              THEN UNCHANGED <<res_grants, tool_calls>>
              ELSE /\ tool_calls' = tool_calls \cup
                        {PCall("workbooks.delete_permission", site, r[1], r[2]) :
                            r \in removed}
                   /\ res_grants' = WithoutRules(site, removed)
    /\ Proceed(Tail(tool_todo))
    /\ UNCHANGED <<tool, tool_noop, conf_projects, conf, srv_principals, res_tags,
                   proj_parent, proj_grants, tableau_projects,
                   tableau_projects_by_parent>>

\* ---- rm_guest_allusers_from_permissions.py

\* start_clean_site and the workbook loop of _clear_site_from_group or
\* _clear_site_from_user; a name that is not found ends the site with a warning
RmWorkbooks ==
    /\ tool = "rm_guest"
    /\ AtStep("rm_workbooks")
    /\ LET site == Head(tool_todo).site
           entry == conf[Head(tool_todo).entry]
           removed == Swept(site, Workbooks, {entry})
       IN  IF ~Found(entry)
           THEN /\ Proceed(Tail(Tail(tool_todo)))
                /\ UNCHANGED <<res_grants, tool_calls, tool_log>>
           ELSE /\ tool_log' = tool_log \cup
                      {PLog("info", site, r[1], r[2]) : r \in removed}
                /\ IF tool_noop
                   THEN UNCHANGED <<res_grants, tool_calls>>
                   ELSE /\ tool_calls' = tool_calls \cup
                             {PCall("workbooks.delete_permission", site, r[1], r[2]) :
                                 r \in removed}
                        /\ res_grants' = WithoutRules(site, removed)
                /\ Proceed(Tail(tool_todo))
    /\ UNCHANGED <<tool, tool_noop, conf_projects, conf, srv_principals, res_tags,
                   proj_parent, proj_grants, tableau_projects,
                   tableau_projects_by_parent>>

\* the workbooks without the entry's tag, in listing order: the list
\* `workbooks` of _clear_site_from_user, whose loop variable w outlives the loop
UntaggedWorkbooks(site, entry) ==
    SelectSeq(WorkbookOrder, LAMBDA w : entry.tag \notin res_tags[site][w])

\* the data source loop. _clear_site_from_group reads w, which that function
\* never binds: the first rule found raises NameError while the log line is
\* formatted. _clear_site_from_user logs the rule and passes w, the last
\* workbook of its workbook loop, to datasources.delete_permission: NameError
\* when there was no such workbook, and otherwise a delete request for a data
\* source with the workbook's id, which the server refuses.
RmDatasources ==
    /\ tool = "rm_guest"
    /\ AtStep("rm_datasources")
    /\ LET site == Head(tool_todo).site
           entry == conf[Head(tool_todo).entry]
           found == Swept(site, Datasources, {entry})
           workbooks == UntaggedWorkbooks(site, entry)
       IN  IF found = {}
           THEN /\ Proceed(Tail(tool_todo))
                /\ UNCHANGED <<tool_calls, tool_log>>
           ELSE IF entry.group
           THEN /\ tool_pc' = "crashed"
                /\ UNCHANGED <<tool_todo, tool_calls, tool_log>>
           ELSE IF tool_noop
           THEN /\ tool_log' = tool_log \cup
                      {PLog("info", site, r[1], r[2]) : r \in found}
                /\ Proceed(Tail(tool_todo))
                /\ UNCHANGED tool_calls
           ELSE \E r \in found :
                /\ tool_log' = tool_log \cup {PLog("info", site, r[1], r[2])}
                /\ tool_pc' = "crashed"
                /\ UNCHANGED tool_todo
                /\ tool_calls' =
                      IF workbooks = <<>> THEN tool_calls
                      ELSE tool_calls \cup
                             {PCall("datasources.delete_permission", site,
                                    workbooks[Len(workbooks)], r[2])}
    /\ UNCHANGED <<tool, tool_noop, conf_projects, conf, srv_principals, res_tags,
                   res_grants, proj_parent, proj_grants, tableau_projects,
                   tableau_projects_by_parent>>

\* ---- remove_group_all_users.py

\* main: the rules of group "All Users" on the workbooks without the tag,
\* one delete request for each capability of the rule
RemoveGroupAllUsers ==
    /\ tool = "rm_all"
    /\ AtStep("all_workbooks")
    /\ LET site == Head(tool_todo).site
           entry == conf[Head(tool_todo).entry]
           removed == Swept(site, Workbooks, {entry})
       IN  IF ~Found(entry)
           THEN /\ tool_pc' = "crashed"
                /\ UNCHANGED <<tool_todo, res_grants, tool_calls, tool_log>>
           ELSE /\ tool_log' = tool_log \cup
                      {PLog(IF tool_noop THEN "warning" ELSE "debug",
                            site, r[1], r[2]) : r \in removed}
                /\ IF tool_noop
                   THEN UNCHANGED <<res_grants, tool_calls>>
                   ELSE /\ tool_calls' = tool_calls \cup
                             {PCall("groups.delete_request", site, r[1], r[2]) :
                                 r \in removed}
                        /\ res_grants' = WithoutRules(site, removed)
                /\ Proceed(Tail(tool_todo))
    /\ UNCHANGED <<tool, tool_noop, conf_projects, conf, srv_principals, res_tags,
                   proj_parent, proj_grants, tableau_projects,
                   tableau_projects_by_parent>>

\* ---- the runs of the pruners

\* the steps of a run, from the configuration
StepsOf(which, entries, projects) ==
    IF which = "clean"
    THEN Concat([i \in 1..Len(PSites) |->
            (IF SiteConf(PSites[i], projects) # {}
             THEN <<Step("list", PSites[i], 0), Step("order", PSites[i], 0),
                    Step("projects", PSites[i], 0)>>
             ELSE <<>>)
            \o (IF SiteConf(PSites[i], Range(entries)) # {}
                THEN <<Step("workbooks", PSites[i], 0)>>
                ELSE <<>>)])
    ELSE IF which = "rm_guest"
    THEN Concat([i \in 1..Len(entries) |->
            Concat([j \in 1..Len(entries[i].sites) |->
                <<Step("rm_workbooks", entries[i].sites[j], i),
                  Step("rm_datasources", entries[i].sites[j], i)>>])])
    ELSE <<Step("all_workbooks", PSites[1], 1)>>

Entry(name, tag, sites) ==
    [name |-> name, group |-> PrincipalKind[name] = "group", tag |-> tag,
     sites |-> sites]

PrunerIdle ==
    /\ tool = "none"
    /\ tool_noop = FALSE
    /\ conf_projects = {}
    /\ conf = <<>>
    /\ srv_principals = {}
    /\ res_tags = <<>>
    /\ res_grants = <<>>
    /\ proj_parent = <<>>
    /\ proj_grants = <<>>
    /\ tableau_projects = <<>>
    /\ tableau_projects_by_parent = <<>>
    /\ tool_todo = <<>>
    /\ tool_pc = "done"
    /\ tool_calls = {}
    /\ tool_log = {}

\* the denylists of the study: one or both principals, with or without a tag
ConfChoices ==
    {<<Entry(n, t, PSites)>> : n \in Principals, t \in {KeepTag, NoTag}}
    \cup {<<Entry(n, t, PSites), Entry(m, KeepTag, <<"s1">>)>> :
            <<n, m>> \in {<<"All Users", "guest">>, <<"guest", "All Users">>},
            t \in {KeepTag, NoTag}}

\* the project trees of the study: a chain listed child first, two top-level
\* projects with a child, and a project whose parent is not listed
ParentChoices ==
    { [p1 |-> "p2", p2 |-> "p3", p3 |-> NoParent],
      [p1 |-> NoParent, p2 |-> "p1", p3 |-> NoParent],
      [p1 |-> NoParent, p2 |-> Unlisted, p3 |-> "p1"] }

InitPruner ==
    /\ tool \in {"clean", "rm_guest", "rm_all"}
    /\ tool_noop \in BOOLEAN
    /\ srv_principals \in {Principals, {"All Users"}}
    /\ conf \in IF tool = "rm_all"
                THEN {<<Entry("All Users", KeepTag, <<PSites[1]>>)>>}
                ELSE ConfChoices \cup (IF tool = "clean" THEN {<<>>} ELSE {})
    /\ conf_projects \in
          IF tool = "clean"
          THEN {{}, {Entry("All Users", NoTag, PSites)},
                {Entry("All Users", NoTag, PSites), Entry("guest", NoTag, PSites)},
                {Entry("All Users", NoTag, <<"s1">>)}}
          ELSE {{}}
    /\ \E t1 \in SUBSET {KeepTag}, td \in SUBSET {KeepTag},
          gw \in SUBSET srv_principals, gd \in SUBSET srv_principals :
          /\ res_tags = [s \in Range(PSites) |->
                 [r \in Workbooks \cup Datasources |->
                     IF r = "w1" THEN t1 ELSE IF r = "d1" THEN td ELSE {}]]
          /\ res_grants = [s \in Range(PSites) |->
                 [r \in Workbooks \cup Datasources |->
                     IF r \in Workbooks THEN gw
                     ELSE IF tool = "rm_guest" THEN gd ELSE {}]]
          /\ tool = "rm_guest" \/ gd = {}
    /\ \E parents \in ParentChoices, cs \in {{"explicit"}, {"lens", "workbook"}},
          gs \in SUBSET srv_principals :
          /\ conf_projects = {} => /\ parents = [p1 |-> NoParent, p2 |-> "p1",
                                                p3 |-> NoParent]
                                   /\ cs = {"explicit"} /\ gs = {}
          /\ proj_parent = [s \in Range(PSites) |-> parents]
          /\ proj_grants = [s \in Range(PSites) |-> [p \in Projects |->
                 [c \in Categories |-> IF c \in cs THEN gs ELSE {}]]]
    /\ tableau_projects = <<>>
    /\ tableau_projects_by_parent = <<>>
    /\ tool_todo = StepsOf(tool, conf, conf_projects)
    /\ tool_pc = IF tool_todo = <<>> THEN "done" ELSE "run"
    /\ tool_calls = {}
    /\ tool_log = {}

----------------------------------------------------------------------------
(* hrms_report_sender.py: the mails about the reports of leaving users *)

Subjects == <<"u1", "u2">>
Milestones == {"first_mail", "second_mail", "third_mail"}

\* the days_left values of the study
MaxDaysLeft == 9
MaxDaysPast == 7

NoEvaluation == [name |-> "none", days_left |-> 0, before |-> {},
                 mail |-> "none", outcome |-> "none"]

HrmsIdle ==
    /\ mail_to = FALSE
    /\ mail_states = [u \in Range(Subjects) |-> {}]
    /\ mail_states_file = [u \in Range(Subjects) |-> {}]
    /\ days_left = [u \in Range(Subjects) |-> 0]
    /\ tableau_resources = [u \in Range(Subjects) |-> FALSE]
    /\ report_data = <<>>
    /\ hrms_pc = "idle"
    /\ hrms_event = NoEvaluation
    /\ mails_sent = [u \in Range(Subjects) |-> <<>>]

\* cli up to the mail loop, in a process started after the one before it
\* has ended or raised, with or without the option --mail_to:
\* MailStatus.__init__ loads the file, report_data is
\* collected, and the users' workbooks and projects are looked up
HrmsStart ==
    /\ hrms_pc \in {"idle", "crashed"}
    /\ hrms_pc' = "run"
    /\ mail_to' \in BOOLEAN
    /\ mail_states' = mail_states_file
    /\ report_data' = Subjects
    /\ tableau_resources' \in [Range(Subjects) -> BOOLEAN]
    /\ hrms_event' = NoEvaluation
    /\ UNCHANGED <<mail_states_file, days_left, mails_sent>>

\* a set_*_mail_state that stores the milestone without the user's other ones
SetMailStateAlone(username, milestone) ==
    /\ mail_states' = [mail_states EXCEPT ![username] = {milestone}]
    /\ mail_states_file' = mail_states'

\* MailStatus.set_*_mail_state and _save_data
SetMailState(username, milestone) ==
    /\ mail_states' = [mail_states EXCEPT ![username] = @ \cup {milestone}]
    /\ mail_states_file' = mail_states'

\* MailStatus.clean: the user's entry is popped and the file is rewritten,
\* when the user has an entry
CleanMailState(username) ==
    /\ mail_states' = [mail_states EXCEPT ![username] = {}]
    /\ mail_states_file' = IF mail_states[username] # {} THEN mail_states'
                           ELSE mail_states_file

\* a sending branch that sets the milestone before it sends
SendMilestoneSetsFirst(username, milestone) ==
    \E outcome \in {"sent", "raised"} :
        /\ hrms_event' = [name |-> username, days_left |-> days_left[username],
                          before |-> mail_states[username], mail |-> milestone,
                          outcome |-> outcome]
        /\ SetMailState(username, milestone)
        /\ IF outcome = "sent"
           THEN /\ mails_sent' = [mails_sent EXCEPT ![username] =
                                     Append(@, milestone)]
                /\ report_data' = Tail(report_data)
                /\ hrms_pc' = IF Tail(report_data) = <<>> THEN "idle" ELSE "run"
           ELSE /\ hrms_pc' = "crashed"
                /\ UNCHANGED <<mails_sent, report_data>>

\* one of the three sending branches: send_templated_mail, which may raise,
\* and then the milestone is set
SendMilestone(username, milestone) ==
    \E outcome \in {"sent", "raised"} :
        /\ hrms_event' = [name |-> username, days_left |-> days_left[username],
                          before |-> mail_states[username], mail |-> milestone,
                          outcome |-> outcome]
        /\ IF outcome = "sent"
           THEN /\ SetMailState(username, milestone)
                /\ mails_sent' = [mails_sent EXCEPT ![username] =
                                     Append(@, milestone)]
                /\ report_data' = Tail(report_data)
                /\ hrms_pc' = IF Tail(report_data) = <<>> THEN "idle" ELSE "run"
           ELSE /\ hrms_pc' = "crashed"
                /\ UNCHANGED <<mail_states, mail_states_file, mails_sent,
                               report_data>>

\* an evaluation that sends nothing
NoMail(username) ==
    /\ hrms_event' = [name |-> username, days_left |-> days_left[username],
                      before |-> mail_states[username], mail |-> "none",
                      outcome |-> "none"]
    /\ report_data' = Tail(report_data)
    /\ hrms_pc' = IF Tail(report_data) = <<>> THEN "idle" ELSE "run"
    /\ UNCHANGED mails_sent

\* cli, the body of `for user_data in report_data` in the mail loop
HrmsEvaluate ==
    /\ hrms_pc = "run"
    /\ report_data # <<>>
    /\ LET username == Head(report_data)
           d == days_left[username]
           state == mail_states[username]
       IN  IF ~mail_to
           THEN \* recipients = mail_to.split(',') with mail_to None
                /\ hrms_pc' = "crashed"
                /\ UNCHANGED <<mail_states, mail_states_file, report_data,
                               hrms_event, mails_sent>>
           ELSE IF d < -5
           THEN CleanMailState(username) /\ NoMail(username)
           ELSE IF ~tableau_resources[username]
           THEN NoMail(username) /\ UNCHANGED <<mail_states, mail_states_file>>
           ELSE IF d < 0 /\ "third_mail" \notin state
           THEN SendMilestone(username, "third_mail")
           ELSE IF d < 7 /\ "second_mail" \notin state
           THEN SendMilestone(username, "second_mail")
           ELSE IF d > 7 /\ "first_mail" \notin state
           THEN SendMilestone(username, "first_mail")
           ELSE NoMail(username) /\ UNCHANGED <<mail_states, mail_states_file>>
    /\ UNCHANGED <<mail_to, days_left, tableau_resources>>

\* a day passes between two runs
DayPasses ==
    /\ hrms_pc \in {"idle", "crashed"}
    /\ \E u \in Range(Subjects) : days_left[u] > -MaxDaysPast
    /\ days_left' = [u \in Range(Subjects) |->
                        IF days_left[u] > -MaxDaysPast THEN days_left[u] - 1
                        ELSE days_left[u]]
    /\ UNCHANGED <<mail_to, mail_states, mail_states_file, tableau_resources,
                   report_data, hrms_pc, hrms_event, mails_sent>>

\* ---- MailStatus on its own: any calls of its methods, in any processes

\* at most this many set_*_mail_state calls for one user between two cleans
MaxMarks == 3

StatusOp(username, op) ==
    [name |-> username, days_left |-> 0, before |-> mail_states[username],
     mail |-> op, outcome |-> "none"]

\* MailStatus.__init__: the file is loaded
StatusLoad ==
    /\ hrms_pc = "idle"
    /\ hrms_pc' = "status"
    /\ mail_states' = mail_states_file
    /\ hrms_event' = NoEvaluation
    /\ UNCHANGED <<mail_to, mail_states_file, days_left, tableau_resources,
                   report_data, mails_sent>>

\* set_first_mail_state, set_second_mail_state or set_third_mail_state;
\* mails_sent keeps the milestones set since the user was last cleaned
StatusSet ==
    /\ hrms_pc = "status"
    /\ \E username \in Range(Subjects), milestone \in Milestones :
          /\ Len(mails_sent[username]) < MaxMarks
          /\ SetMailState(username, milestone)
          /\ mails_sent' = [mails_sent EXCEPT ![username] = Append(@, milestone)]
          /\ hrms_event' = StatusOp(username, milestone)
    /\ UNCHANGED <<mail_to, days_left, tableau_resources, report_data, hrms_pc>>

\* clean
StatusClean ==
    /\ hrms_pc = "status"
    /\ \E username \in Range(Subjects) :
          /\ CleanMailState(username)
          /\ mails_sent' = [mails_sent EXCEPT ![username] = <<>>]
          /\ hrms_event' = StatusOp(username, "clean")
    /\ UNCHANGED <<mail_to, days_left, tableau_resources, report_data, hrms_pc>>

\* the process ends: the object is gone, the file stays
StatusExit ==
    /\ hrms_pc = "status"
    /\ hrms_pc' = "idle"
    /\ mail_states' = [u \in Range(Subjects) |-> {}]
    /\ hrms_event' = NoEvaluation
    /\ UNCHANGED <<mail_to, mail_states_file, days_left, tableau_resources,
                   report_data, mails_sent>>

InitHrms ==
    /\ mail_to \in BOOLEAN
    /\ mail_states = [u \in Range(Subjects) |-> {}]
    /\ mail_states_file = [u \in Range(Subjects) |-> {}]
    /\ days_left \in [Range(Subjects) -> {MaxDaysLeft, 3, -1}]
    /\ tableau_resources = [u \in Range(Subjects) |-> FALSE]
    /\ report_data = <<>>
    /\ hrms_pc = "idle"
    /\ hrms_event = NoEvaluation
    /\ mails_sent = [u \in Range(Subjects) |-> <<>>]

----------------------------------------------------------------------------
(* SendMail *)

\* SMTP server fails (logged, swallowed), or the SendMail object was built
\* for a dry run and only logs it
SendOutcomes == {"delivered", "smtp_error", "logged_only"}

MailIdle ==
    /\ sent_state = [n \in MailSubjects |-> Never]
    /\ pickle_file = NoFile
    /\ now = 0
    /\ mail_event = NoMailEvent

\* SendMail.__init__: the state is read from the pickle file if there is one
SendMailInit ==
    /\ sent_state' = IF pickle_file = NoFile
                     THEN [n \in MailSubjects |-> Never]
                     ELSE pickle_file[1]
    /\ UNCHANGED <<pickle_file, now, mail_event>>

\* SendMail.send_mail_old_serveradministrator(name)
SendMailOldServerAdministrator ==
    \E name \in MailSubjects, outcome \in SendOutcomes :
        LET due == LetterDue(sent_state, name, now)
            state == IF due THEN [sent_state EXCEPT ![name] = now] ELSE sent_state
        IN  /\ sent_state' = state
            /\ pickle_file' = <<state>>
            /\ mail_event' = [name |-> name, at |-> now, prev |-> sent_state,
                              sends |-> IF due THEN 1 ELSE 0,
                              outcome |-> IF due THEN outcome ELSE "none"]
            /\ UNCHANGED now

Tick ==
    /\ now < MaxDays * TicksPerDay
    /\ now' = now + 1
    /\ UNCHANGED <<sent_state, pickle_file, mail_event>>

----------------------------------------------------------------------------
(* The Tableau server and the configuration of a run *)

Scripts == {"ad2tabsync", "tableausync"}
Roles == {"ServerAdministrator", "Interactor", "Unlicensed"}
Absent == "Absent"
AllUsers == "All Users"
\* the names a site's groups may have: the directory's, and one that is
\* managed outside the directory
TabGroupNames == GroupDNs \cup {"F_x"}

\* t.startswith('F_') or t.startswith('A_'), over TabGroupNames
StartsWithF_or_A(t) == t \in {"F_x"}

\* `x in y` for two strings, over the account names of the model: none is a
\* proper substring of another
IsSubstring(x, y) == x = y

\* the names of the users of a listing
NamesOf(listing) == {n \in Persons : listing[n] # Absent}
\* ... with site_role != 'Unlicensed'
LicensedOf(listing) == {n \in Persons : listing[n] \notin {Absent, "Unlicensed"}}
\* ... with site_role == 'Unlicensed'
UnlicensedOf(listing) == {n \in Persons : listing[n] = "Unlicensed"}

\* users.populate_workbooks(user): the workbooks the user owns or may read
PopulateWorkbooks(site, user) ==
    IF wb_owner[site] # "none" /\ (wb_owner[site] = user \/ wb_shared[site])
    THEN {[name |-> "wb", owner_id |-> wb_owner[site]]}
    ELSE {}

\* ad.get_user_by_samaccountname(name): every account of the model has an
\* entry under users_root_ou, enabled or not
GetUserBySamaccountname(name) == IF name \in Persons THEN <<name>> ELSE <<>>

Call(op, arg) == [site |-> site_name, op |-> op, arg |-> arg]
\* groups.add_user / groups.remove_user for one user and one group
MCall(op, group, user) == [site |-> site_name, op |-> op, group |-> group, user |-> user]

\* what the server answers to users.remove: it removes the user, it reports
\* the user as absent already (ServerResponseError with code 409003), or it
\* fails with another code
RemoveOutcomes == {"ok", "409003", "other"}
\* at most this many faults of the Tableau client or the directory in one behaviour
MaxFaults == 1
\* what users.get_by_id does: it returns the user or raises
GetByIdOutcomes == {"ok", "raised"}

\* the order in which TSC.Pager(groups) lists a site's groups
TabGroupOrder == <<"All Users", "g1", "g2", "g3", "F_x">>
\* the first of a non-empty set of group names in that order
FirstGroup(gs) ==
    TabGroupOrder[CHOOSE i \in 1..Len(TabGroupOrder) :
                     /\ TabGroupOrder[i] \in gs
                     /\ \A j \in 1..(i - 1) : TabGroupOrder[j] \notin gs]

\* the server drops a removed user from the groups of the site
WithoutUser(site_members, user) ==
    [g \in DOMAIN site_members |-> site_members[g] \ {user}]
\* the groups of a site after new ones are created (empty) and old ones deleted
WithGroups(site_members, new, old) ==
    [g \in DOMAIN site_members |-> IF g \in new \cup old THEN {} ELSE site_members[g]]

\* ad.get_group_by_samaccountname(name): the groups of that name under
\* tableau_root_ou
GetGroupBySamaccountname(name) ==
    IF \E s \in Sites : name \in ou[s] THEN <<name>> ELSE <<>>
UserOps == {"users.remove", "users.update:Unlicensed", "users.update:Interactor",
            "users.add", "users.update:new", "users.update:fullname"}

----------------------------------------------------------------------------
(* ad2tabsync.py: AD2TabSync *)

\* old_users: set(tableau names) - set(directory names) - self.serviceaccounts
OldUsers(T, D, S) == (T \ D) \ S

\* new_users: set(directory names) - set(tableau names) - self.serviceaccounts
NewUsers(T, D, S) == (D \ T) \ S

\* a variant of the branch below without the ServerAdministrator test
OldUserActionNoAdminGuard(site_role, user_workbooks) ==
    IF user_workbooks # {}
    THEN IF site_role # "Unlicensed" THEN "demote" ELSE "skip"
    ELSE "remove"
\* the branch `for user in old_users` takes for one stale user
OldUserAction(site_role, user_workbooks) ==
    IF site_role = "ServerAdministrator" THEN "mail"
    ELSE IF user_workbooks # {}
         THEN IF site_role # "Unlicensed" THEN "demote" ELSE "skip"
         ELSE "remove"

\* the branch `for user in new_users` takes for one fresh user
NewUserAction(user, listing) ==
    IF user \in LicensedOf(listing) THEN "promote" ELSE "create"

\* AD2TabSync._sync_site, up to the sign-in, for the next site of run_sync's loop
SyncSite ==
    /\ script = "ad2tabsync"
    /\ pc = "site"
    /\ common_sites # <<>>
    /\ site_name' = Head(common_sites)
    /\ common_sites' = Tail(common_sites)
    /\ pc' = "user_diff"
    /\ UNCHANGED <<script, noop, serviceaccounts, return_code>>
    /\ UNCHANGED <<adVars, tabVars, localVars, histVars>>

\* _sync_site_user: the two listings and the two differences
SyncSiteUserDiff ==
    /\ script = "ad2tabsync"
    /\ pc = "user_diff"
    /\ LET r == GetAllSiteUsers(site_name, group_list)
           T == NamesOf(tab_users[site_name])
           D == Range(r.users)
           old == OldUsers(T, D, serviceaccounts)
           new == NewUsers(T, D, serviceaccounts)
       IN  /\ tableau_all_site_users' = tab_users[site_name]
           /\ ad_all_site_users' = r.users
           /\ group_list' = r.group_list
           /\ diff' = [old |-> old, new |-> new]
           /\ old_users' = IF site_name = "ERS" THEN {} ELSE old
           /\ new_users' = new
    /\ pc' = "users"
    /\ UNCHANGED <<member, enabled, ou, runVarsButPc, tabVars, histVars>>
    /\ UNCHANGED <<tableau_site_users, new_groups, old_groups>>

\* _sync_site_user: one round of `for user in old_users`; a users.remove
\* that fails with a code other than 409003 is raised out of _sync_site
SyncSiteUserOld ==
    /\ script = "ad2tabsync"
    /\ pc = "users"
    /\ \E user \in old_users, outcome \in RemoveOutcomes :
          LET site_role == tableau_all_site_users[user]
              user_workbooks == {b \in PopulateWorkbooks(site_name, user) :
                                    b.owner_id = user}
              action == OldUserAction(site_role, user_workbooks)
              removes == action = "remove" /\ noop
          IN  /\ ~removes => outcome = "ok"
              /\ IF removes /\ outcome = "other"
                 THEN /\ pc' = "failed"
                      /\ calls' = calls \cup {Call("users.remove", user),
                                              Call("users.remove:raised", user)}
                      /\ UNCHANGED <<old_users, tableau_all_site_users, tab_users,
                                     tab_members>>
                 ELSE /\ pc' = pc
                      /\ old_users' = old_users \ {user}
                      /\ tableau_all_site_users' =
                            IF action = "demote"
                            THEN [tableau_all_site_users EXCEPT ![user] = "Unlicensed"]
                            ELSE tableau_all_site_users
                      /\ tab_users' =
                            IF ~noop THEN tab_users
                            ELSE IF action = "demote"
                            THEN [tab_users EXCEPT ![site_name][user] = "Unlicensed"]
                            ELSE IF action = "remove"
                            THEN [tab_users EXCEPT ![site_name][user] = Absent]
                            ELSE tab_users
                      /\ tab_members' =
                            IF removes
                            THEN [tab_members EXCEPT ![site_name] = WithoutUser(@, user)]
                            ELSE tab_members
                      /\ calls' =
                            IF ~noop THEN calls
                            ELSE IF action = "mail"
                            THEN calls \cup {Call("send_mail_old_serveradministrator", user)}
                            ELSE IF action = "demote"
                            THEN calls \cup {Call("users.update:Unlicensed", user)}
                            ELSE IF action = "remove"
                            THEN calls \cup {Call("users.remove", user)} \cup
                                 (IF outcome = "409003"
                                  THEN {Call("users.remove:409003", user)} ELSE {})
                            ELSE calls
    /\ UNCHANGED <<adVars, runVarsButPc, tab_fullname, wb_owner, wb_shared, tab_groups>>
    /\ UNCHANGED <<ad_all_site_users, diff, new_users, tableau_site_users,
                   new_groups, old_groups, tab_users0>>

\* _sync_site_user: one round of `for user in new_users`
SyncSiteUserNew ==
    /\ script = "ad2tabsync"
    /\ pc = "users"
    /\ old_users = {}
    /\ \E user \in new_users :
          LET action == NewUserAction(user, tableau_all_site_users)
          IN  /\ new_users' = new_users \ {user}
              /\ tableau_all_site_users' =
                    IF action = "promote"
                    THEN [tableau_all_site_users EXCEPT ![user] = "Interactor"]
                    ELSE tableau_all_site_users
              /\ tab_users' =
                    IF noop
                    THEN [tab_users EXCEPT ![site_name][user] = "Interactor"]
                    ELSE tab_users
              /\ tab_fullname' =
                    IF noop /\ action = "create"
                    THEN [tab_fullname EXCEPT ![site_name][user] = "ad"]
                    ELSE tab_fullname
              /\ calls' =
                    IF ~noop THEN calls
                    ELSE IF action = "promote"
                    THEN calls \cup {Call("users.update:Interactor", user)}
                    ELSE calls \cup {Call("users.add", user),
                                     Call("users.update:new", user)}
    /\ UNCHANGED <<adVars, runVars, wb_owner, wb_shared, tab_groups>>
    /\ UNCHANGED <<ad_all_site_users, diff, old_users, tableau_site_users,
                   new_groups, old_groups, tab_users0>>

\* _sync_site_user: the listing the attribute pass walks
SyncSiteUserListUserdata ==
    /\ script = "ad2tabsync"
    /\ pc = "users"
    /\ old_users = {}
    /\ new_users = {}
    /\ tableau_site_users' = LicensedOf(tab_users[site_name]) \ serviceaccounts
    /\ pc' = "userdata"
    /\ UNCHANGED <<adVars, runVarsButPc, tabVars, histVars>>
    /\ UNCHANGED <<tableau_all_site_users, ad_all_site_users, diff, old_users,
                   new_users, new_groups, old_groups>>

\* _sync_site_user: one round of `for user in tableau_site_users`; an
\* exception of users.get_by_id is caught and logged, and the `else` of the
\* try statement is skipped
SyncSiteUserUserdata ==
    /\ script = "ad2tabsync"
    /\ pc = "userdata"
    /\ \E user \in tableau_site_users, outcome \in GetByIdOutcomes :
          LET auser_obj == GetUserBySamaccountname(user)
              change == /\ outcome = "ok"
                        /\ auser_obj # <<>>
                        /\ tab_fullname[site_name][user] # "ad"
          IN  /\ outcome = "raised" => nfaults < MaxFaults
              /\ nfaults' = IF outcome = "raised" THEN nfaults + 1 ELSE nfaults
              /\ tableau_site_users' = tableau_site_users \ {user}
              /\ tab_fullname' =
                    IF change /\ noop
                    THEN [tab_fullname EXCEPT ![site_name][user] = "ad"]
                    ELSE tab_fullname
              /\ calls' =
                    IF outcome = "raised"
                    THEN calls \cup {Call("users.get_by_id:raised", user)}
                    ELSE IF change /\ noop
                    THEN calls \cup {Call("users.update:fullname", user)}
                    ELSE calls
    /\ UNCHANGED <<adVars, runVars, tab_users, wb_owner, wb_shared, tab_groups>>
    /\ UNCHANGED <<tableau_all_site_users, ad_all_site_users, diff, old_users,
                   new_users, new_groups, old_groups, tab_users0>>

\* a variant of the difference below without the removal of 'All Users'
OldGroupsKeepAllUsers(tableau_site_groups, ad_site_groups) ==
    tableau_site_groups \ ad_site_groups
\* old_groups after `old_groups.remove('All Users')`, which has raised
\* KeyError when the name is not in the difference
OldGroups(tableau_site_groups, ad_site_groups) ==
    (tableau_site_groups \ ad_site_groups) \ {AllUsers}

\* _sync_site_groups
SyncSiteGroups ==
    /\ script = "ad2tabsync"
    /\ pc = "userdata"
    /\ tableau_site_users = {}
    /\ LET ad_site_groups == ou[site_name]
           tableau_site_groups == tab_groups[site_name]
           new == ad_site_groups \ tableau_site_groups
           raised == AllUsers \notin (tableau_site_groups \ ad_site_groups)
           old0 == OldGroups(tableau_site_groups, ad_site_groups)
           old == IF site_name = "ERS"
                  THEN {t \in old0 : ~StartsWithF_or_A(t)}
                  ELSE old0
       IN  IF raised
           THEN /\ pc' = "failed"
                /\ UNCHANGED <<tab_groups, tab_members, calls, new_groups, old_groups>>
           ELSE /\ pc' = "memberships"
                /\ new_groups' = new
                /\ old_groups' = old
                /\ tab_groups' =
                      IF noop
                      THEN [tab_groups EXCEPT ![site_name] = (@ \cup new) \ old]
                      ELSE tab_groups
                /\ tab_members' =
                      IF noop
                      THEN [tab_members EXCEPT ![site_name] = WithGroups(@, new, old)]
                      ELSE tab_members
                /\ calls' =
                      IF noop
                      THEN calls \cup {Call("groups.create", g) : g \in new}
                                 \cup {Call("groups.delete", g) : g \in old}
                      ELSE calls
    /\ UNCHANGED <<adVars, runVarsButPc, tab_users, tab_fullname, wb_owner, wb_shared>>
    /\ UNCHANGED <<tableau_all_site_users, ad_all_site_users, diff, old_users,
                   new_users, tableau_site_users, tab_users0>>

\* a membership phase that walks the groups F_* and A_* on every site
MembershipGroupsEverySite(site, groups) ==
    {g \in groups : g # AllUsers}

\* the groups the membership phase walks: the site's groups, on ERS without
\* F_* and A_*, and without 'All Users'
MembershipGroups(site, groups) ==
    {g \in groups : /\ g # AllUsers
                    /\ site = "ERS" => ~StartsWithF_or_A(g)}

\* _sync_site_memberships: the listings of groups and of users (the names of
\* tableau_site_users; the user ids of the loop below are looked up in it)
SyncSiteMembershipsList ==
    /\ script = "ad2tabsync"
    /\ pc = "memberships"
    /\ groups_todo' = MembershipGroups(site_name, tab_groups[site_name])
    /\ tableau_site_users' = NamesOf(tab_users[site_name])
    /\ pc' = "members"
    /\ UNCHANGED <<adVars, runVarsButPc, tabVars, histVars>>
    /\ UNCHANGED <<tableau_all_site_users, ad_all_site_users, diff, old_users,
                   new_users, new_groups, old_groups>>
    /\ UNCHANGED <<tab_members, mcalls>>

\* _sync_site_memberships: one round of `for group in [...]`; group[0] in
\* get_members_by_groupname raises IndexError when the directory has no group
\* of that name.  A new member that is not in the listing is logged and
\* skipped; at an old member that is not in it `.pop()` raises IndexError
\* (dry run or not), after the new members and any of the other old members.
SyncSiteMembershipsGroup ==
    /\ script = "ad2tabsync"
    /\ pc = "members"
    /\ groups_todo # {}
    /\ LET group == FirstGroup(groups_todo)
       IN  IF GetGroupBySamaccountname(group) = <<>>
           THEN /\ pc' = "failed"
                /\ UNCHANGED <<group_list, groups_todo, tab_members, mcalls>>
           ELSE LET r == GetMembersByGroupname(group, group_list)
                    tableau_members_set == tab_members[site_name][group]
                    ad_members_set == Range(r.users)
                    new_members_set == ad_members_set \ tableau_members_set
                    old_members_set == tableau_members_set \ ad_members_set
                    found == new_members_set \cap tableau_site_users
                    listed == old_members_set \cap tableau_site_users
                IN  /\ group_list' = r.group_list
                    /\ \E removed \in SUBSET listed :
                          /\ listed = old_members_set => removed = listed
                          /\ tab_members' =
                                IF noop
                                THEN [tab_members EXCEPT ![site_name][group] =
                                         (@ \cup found) \ removed]
                                ELSE tab_members
                          /\ mcalls' =
                                IF noop
                                THEN mcalls
                                     \cup {MCall("groups.add_user", group, m) :
                                              m \in found}
                                     \cup {MCall("groups.remove_user", group, m) :
                                              m \in removed}
                                ELSE mcalls
                    /\ IF listed = old_members_set
                       THEN /\ pc' = pc
                            /\ groups_todo' = groups_todo \ {group}
                       ELSE /\ pc' = "failed"
                            /\ UNCHANGED groups_todo
    /\ UNCHANGED <<member, enabled, ou, runVarsButPc, localVars, histVars>>
    /\ UNCHANGED <<tab_users, tab_fullname, wb_owner, wb_shared, tab_groups>>

\* run_sync: the end of one round of `for s in common_sites`, with the
\* handler of an exception raised in _sync_site, and the return
\* a loop whose handler is around the loop instead of inside it: the first
\* site that raises ends run_sync
RunSyncNextSiteStops ==
    /\ script = "ad2tabsync"
    /\ \/ pc = "members" /\ groups_todo = {}
       \/ pc = "failed"
    /\ return_code' = IF pc = "failed" THEN 1 ELSE return_code
    /\ site_log' = Append(site_log, [site |-> site_name, raised |-> pc = "failed"])
    /\ pc' = IF common_sites = <<>> \/ pc = "failed" THEN "done" ELSE "site"
    /\ UNCHANGED <<script, noop, serviceaccounts, common_sites, site_name>>
    /\ UNCHANGED <<adVars, tabVars, localVars, histVars, memVars>>
    /\ UNCHANGED <<exit_code, run, sites0, run1, nfaults, search_failed>>

RunSyncNextSite ==
    /\ script = "ad2tabsync"
    /\ \/ pc = "members" /\ groups_todo = {}
       \/ pc = "failed"
    /\ return_code' = IF pc = "failed" THEN 1 ELSE return_code
    /\ site_log' = Append(site_log, [site |-> site_name, raised |-> pc = "failed"])
    /\ pc' = IF common_sites = <<>> THEN "done" ELSE "site"
    /\ UNCHANGED <<script, noop, serviceaccounts, common_sites, site_name>>
    /\ UNCHANGED <<adVars, tabVars, localVars, histVars, memVars>>
    /\ UNCHANGED <<exit_code, run, sites0, run1, nfaults, search_failed>>

\* main: the exit with run_sync's return code
MainExit ==
    /\ script = "ad2tabsync"
    /\ pc = "done"
    /\ pc' = "exited"
    /\ exit_code' = return_code
    /\ UNCHANGED <<adVars, runVarsButPc, tabVars, localVars, histVars, memVars>>
    /\ UNCHANGED <<site_log, run, sites0, run1, nfaults, search_failed>>

----------------------------------------------------------------------------
(* tableausync.py: main *)

\* new_users_set = ad_all_site_users_set - tableau_all_site_users_set
TS_NewUsersSet(T, D, S) == D \ T

\* old_users_set, after `old_users_set -= set(tableau_service_accounts)`
TS_OldUsersSet(T, D, S) == (T \ D) \ S

\* the branch `for old_user in old_users` takes for one stale user
TS_OldUserAction(workbooks) ==
    IF Cardinality(workbooks) > 0 THEN "demote" ELSE "remove"

\* the branch `for new_user in new_users_set` takes for one fresh user
TS_NewUserAction(new_user, tableau_unlicensed_users) ==
    IF new_user \in tableau_unlicensed_users THEN "promote" ELSE "create"

\* main: the next site of `for current_site in tableau_sites` that has an OU
TS_Site ==
    /\ script = "tableausync"
    /\ pc = "site"
    /\ common_sites # <<>>
    /\ site_name' = Head(common_sites)
    /\ common_sites' = Tail(common_sites)
    /\ pc' = "user_diff"
    /\ UNCHANGED <<script, noop, serviceaccounts, return_code>>
    /\ UNCHANGED <<adVars, tabVars, localVars, histVars>>

\* main: the listings and the two differences; the loops over them run only
\* when do_something is set
TS_SiteUsers ==
    /\ script = "tableausync"
    /\ pc = "user_diff"
    /\ LET r == GetAllSiteUsers(site_name, group_list)
           T == LicensedOf(tab_users[site_name])
           D == Range(r.users)
           old == TS_OldUsersSet(T, D, serviceaccounts)
           new == TS_NewUsersSet(T, D, serviceaccounts)
       IN  /\ tableau_all_site_users' = tab_users[site_name]
           /\ ad_all_site_users' = r.users
           /\ group_list' = r.group_list
           /\ diff' = [old |-> old, new |-> new]
           /\ old_users' = IF site_name = "ERS" \/ ~noop THEN {} ELSE old
           /\ new_users' = IF noop THEN new ELSE {}
    /\ pc' = "users"
    /\ UNCHANGED <<member, enabled, ou, runVarsButPc, tabVars, histVars>>
    /\ UNCHANGED <<tableau_site_users, new_groups, old_groups>>

\* main: one round of `for old_user in old_users`; nothing catches a
\* ServerResponseError of users.remove
TS_OldUser ==
    /\ script = "tableausync"
    /\ pc = "users"
    /\ \E old_user \in old_users, outcome \in RemoveOutcomes :
          LET action == TS_OldUserAction(PopulateWorkbooks(site_name, old_user))
          IN  /\ action # "remove" => outcome = "ok"
              /\ IF outcome # "ok"
                 THEN /\ pc' = "crashed"
                      /\ calls' = calls \cup
                            {Call("users.remove", old_user),
                             Call("users.remove:raised", old_user)} \cup
                            (IF outcome = "409003"
                             THEN {Call("users.remove:409003", old_user)} ELSE {})
                      /\ tab_users' =
                            IF outcome = "409003"
                            THEN [tab_users EXCEPT ![site_name][old_user] = Absent]
                            ELSE tab_users
                      /\ tab_members' =
                            IF outcome = "409003"
                            THEN [tab_members EXCEPT ![site_name] = WithoutUser(@, old_user)]
                            ELSE tab_members
                      /\ UNCHANGED <<old_users, tableau_all_site_users>>
                 ELSE /\ pc' = pc
                      /\ old_users' = old_users \ {old_user}
                      /\ tableau_all_site_users' =
                            IF action = "demote"
                            THEN [tableau_all_site_users EXCEPT ![old_user] = "Unlicensed"]
                            ELSE tableau_all_site_users
                      /\ tab_users' =
                            IF action = "demote"
                            THEN [tab_users EXCEPT ![site_name][old_user] = "Unlicensed"]
                            ELSE [tab_users EXCEPT ![site_name][old_user] = Absent]
                      /\ tab_members' =
                            IF action = "remove"
                            THEN [tab_members EXCEPT ![site_name] = WithoutUser(@, old_user)]
                            ELSE tab_members
                      /\ calls' =
                            IF action = "demote"
                            THEN calls \cup {Call("users.update:Unlicensed", old_user)}
                            ELSE calls \cup {Call("users.remove", old_user)}
    /\ UNCHANGED <<adVars, runVarsButPc, tab_fullname, wb_owner, wb_shared, tab_groups>>
    /\ UNCHANGED <<ad_all_site_users, diff, new_users, tableau_site_users,
                   new_groups, old_groups, tab_users0>>

\* main: one round of `for new_user in new_users_set`
TS_NewUser ==
    /\ script = "tableausync"
    /\ pc = "users"
    /\ old_users = {}
    /\ \E new_user \in new_users :
          LET action == TS_NewUserAction(new_user, UnlicensedOf(tableau_all_site_users))
          IN  /\ new_users' = new_users \ {new_user}
              /\ tableau_all_site_users' =
                    IF action = "promote"
                    THEN [tableau_all_site_users EXCEPT ![new_user] = "Interactor"]
                    ELSE tableau_all_site_users
              /\ tab_users' = [tab_users EXCEPT ![site_name][new_user] = "Interactor"]
              /\ tab_fullname' =
                    IF action = "create"
                    THEN [tab_fullname EXCEPT ![site_name][new_user] = "ad"]
                    ELSE tab_fullname
              /\ calls' =
                    IF action = "promote"
                    THEN calls \cup {Call("users.update:Interactor", new_user)}
                    ELSE calls \cup {Call("users.add", new_user),
                                     Call("users.update:new", new_user)}
    /\ UNCHANGED <<adVars, runVars, wb_owner, wb_shared, tab_groups>>
    /\ UNCHANGED <<ad_all_site_users, diff, old_users, tableau_site_users,
                   new_groups, old_groups, tab_users0>>

\* main: the second listing, and the licensed users the attribute pass walks
TS_ListUserdata ==
    /\ script = "tableausync"
    /\ pc = "users"
    /\ old_users = {}
    /\ new_users = {}
    /\ tableau_all_site_users' = tab_users[site_name]
    /\ tableau_site_users' = LicensedOf(tab_users[site_name])
    /\ pc' = "userdata"
    /\ UNCHANGED <<adVars, runVarsButPc, tabVars, histVars>>
    /\ UNCHANGED <<ad_all_site_users, diff, old_users, new_users, new_groups, old_groups>>

\* main: one round of `for site_user in [...]` of the attribute pass
TS_Userdata ==
    /\ script = "tableausync"
    /\ pc = "userdata"
    /\ \E site_user \in tableau_site_users, outcome \in GetByIdOutcomes :
          LET service == \E a \in serviceaccounts : IsSubstring(site_user, a)
              ad_user == GetUserBySamaccountname(site_user)
              change == /\ ~service
                        /\ ad_user # <<>>
                        /\ tab_fullname[site_name][site_user] # "ad"
                        /\ noop
          IN  /\ service => outcome = "ok"
              /\ outcome = "raised" => nfaults < MaxFaults
              /\ nfaults' = IF outcome = "raised" THEN nfaults + 1 ELSE nfaults
              /\ IF outcome = "raised"
                 THEN \* nothing catches the exception of users.get_by_id
                      /\ pc' = "crashed"
                      /\ calls' = calls \cup {Call("users.get_by_id:raised", site_user)}
                      /\ UNCHANGED <<tableau_site_users, tab_fullname>>
                 ELSE /\ pc' = pc
                      /\ tableau_site_users' = tableau_site_users \ {site_user}
                      /\ tab_fullname' =
                            IF change
                            THEN [tab_fullname EXCEPT ![site_name][site_user] = "ad"]
                            ELSE tab_fullname
                      /\ calls' =
                            IF change
                            THEN calls \cup {Call("users.update:fullname", site_user)}
                            ELSE calls
    /\ UNCHANGED <<adVars, runVarsButPc, tab_users, wb_owner, wb_shared, tab_groups>>
    /\ UNCHANGED <<tableau_all_site_users, ad_all_site_users, diff, old_users,
                   new_users, new_groups, old_groups, tab_users0>>

\* old_groups after `old_groups.remove('All Users')`, which has raised when
\* the name is not in it
TS_OldGroups(filtered) == filtered \ {AllUsers}

\* main: the group phase
TS_Groups ==
    /\ script = "tableausync"
    /\ pc = "userdata"
    /\ tableau_site_users = {}
    /\ LET ad_site_groups == ou[site_name]
           tableau_site_groups == tab_groups[site_name]
           new == ad_site_groups \ tableau_site_groups
           old0 == tableau_site_groups \ ad_site_groups
           filtered == IF site_name = "ERS"
                       THEN {t \in old0 : ~StartsWithF_or_A(t)}
                       ELSE old0
           raised == AllUsers \notin filtered
           old == TS_OldGroups(filtered)
       IN  IF raised
           THEN /\ pc' = "crashed"
                /\ UNCHANGED <<tab_groups, tab_members, calls, new_groups, old_groups>>
           ELSE /\ pc' = "memberships"
                /\ new_groups' = new
                /\ old_groups' = old
                /\ tab_groups' =
                      IF noop
                      THEN [tab_groups EXCEPT ![site_name] = (@ \cup new) \ old]
                      ELSE tab_groups
                /\ tab_members' =
                      IF noop
                      THEN [tab_members EXCEPT ![site_name] = WithGroups(@, new, old)]
                      ELSE tab_members
                /\ calls' =
                      IF noop
                      THEN calls \cup {Call("groups.create", g) : g \in new}
                                 \cup {Call("groups.delete", g) : g \in old}
                      ELSE calls
    /\ UNCHANGED <<adVars, runVarsButPc, tab_users, tab_fullname, wb_owner, wb_shared>>
    /\ UNCHANGED <<tableau_all_site_users, ad_all_site_users, diff, old_users,
                   new_users, tableau_site_users, tab_users0>>

\* main: the listing of groups of the membership phase
TS_MembershipsList ==
    /\ script = "tableausync"
    /\ pc = "memberships"
    /\ groups_todo' = MembershipGroups(site_name, tab_groups[site_name])
    /\ pc' = "members"
    /\ UNCHANGED <<adVars, runVarsButPc, tabVars, localVars, histVars>>
    /\ UNCHANGED <<tab_members, mcalls>>

\* main: one round of `for group in all_tableau_groups`; the user ids are
\* looked up in tableau_all_site_users, the listing of the attribute pass.
\* With do_something set, `.pop()` raises IndexError at the first new member
\* that is not in that listing (the members added before it are any of the
\* others), and `[0]` raises IndexError at the first old member that is not
\* in it (after the new members and any of the other old members).
TS_MembershipsGroup ==
    /\ script = "tableausync"
    /\ pc = "members"
    /\ groups_todo # {}
    /\ LET group == FirstGroup(groups_todo)
       IN  IF GetGroupBySamaccountname(group) = <<>>
           THEN /\ pc' = "crashed"
                /\ UNCHANGED <<group_list, groups_todo, tab_members, mcalls>>
           ELSE LET r == GetMembersByGroupname(group, group_list)
                    tableau_members_set == tab_members[site_name][group]
                    ad_members_set == Range(r.users)
                    new_members_set == ad_members_set \ tableau_members_set
                    old_members_set == tableau_members_set \ ad_members_set
                    found == new_members_set \cap NamesOf(tableau_all_site_users)
                    listed == old_members_set \cap NamesOf(tableau_all_site_users)
                IN  /\ group_list' = r.group_list
                    /\ IF noop /\ found # new_members_set
                       THEN /\ pc' = "crashed"
                            /\ UNCHANGED groups_todo
                            /\ \E added \in SUBSET found :
                                  /\ tab_members' =
                                        [tab_members EXCEPT ![site_name][group] =
                                            @ \cup added]
                                  /\ mcalls' = mcalls \cup
                                        {MCall("groups.add_user", group, m) : m \in added}
                       ELSE IF noop /\ listed # old_members_set
                       THEN /\ pc' = "crashed"
                            /\ UNCHANGED groups_todo
                            /\ \E removed \in SUBSET listed :
                                  /\ tab_members' =
                                        [tab_members EXCEPT ![site_name][group] =
                                            (@ \cup found) \ removed]
                                  /\ mcalls' = mcalls
                                        \cup {MCall("groups.add_user", group, m) :
                                                 m \in found}
                                        \cup {MCall("groups.remove_user", group, m) :
                                                 m \in removed}
                       ELSE /\ pc' = pc
                            /\ groups_todo' = groups_todo \ {group}
                            /\ tab_members' =
                                  IF noop
                                  THEN [tab_members EXCEPT ![site_name][group] =
                                           (@ \cup found) \ old_members_set]
                                  ELSE tab_members
                            /\ mcalls' =
                                  IF noop
                                  THEN mcalls
                                       \cup {MCall("groups.add_user", group, m) :
                                                m \in found}
                                       \cup {MCall("groups.remove_user", group, m) :
                                                m \in old_members_set}
                                  ELSE mcalls
    /\ UNCHANGED <<member, enabled, ou, runVarsButPc, localVars, histVars>>
    /\ UNCHANGED <<tab_users, tab_fullname, wb_owner, wb_shared, tab_groups>>

\* main: the end of one round of `for current_site in tableau_sites`
TS_NextSite ==
    /\ script = "tableausync"
    /\ pc = "members"
    /\ groups_todo = {}
    /\ site_log' = Append(site_log, [site |-> site_name, raised |-> FALSE])
    /\ pc' = IF common_sites = <<>> THEN "done" ELSE "site"
    /\ UNCHANGED <<script, noop, serviceaccounts, common_sites, site_name, return_code>>
    /\ UNCHANGED <<adVars, tabVars, localVars, histVars, memVars>>
    /\ UNCHANGED <<exit_code, run, sites0, run1, nfaults, search_failed>>

----------------------------------------------------------------------------
(* Runs of the two scripts *)

NoListing == [n \in Persons |-> Absent]
NoMembers == [g \in TabGroupNames |-> {}]
\* exit_code while the process has not exited
Running == -1
\* run1 while there has been no earlier process
NoRun1 == [exit_code |-> Running, site_log |-> <<>>, completed |-> FALSE,
           calls |-> {}, mcalls |-> {}]

SyncIdle ==
    /\ script = "none"
    /\ noop = FALSE
    /\ serviceaccounts = {}
    /\ common_sites = <<>>
    /\ site_name = "none"
    /\ pc = "idle"
    /\ return_code = 0
    /\ tab_users = [s \in Sites |-> NoListing]
    /\ tab_fullname = [s \in Sites |-> [n \in Persons |-> "old"]]
    /\ wb_owner = [s \in Sites |-> "none"]
    /\ wb_shared = [s \in Sites |-> FALSE]
    /\ tab_groups = [s \in Sites |-> {AllUsers}]
    /\ tableau_all_site_users = NoListing
    /\ ad_all_site_users = <<>>
    /\ diff = [old |-> {}, new |-> {}]
    /\ old_users = {}
    /\ new_users = {}
    /\ tableau_site_users = {}
    /\ new_groups = {}
    /\ old_groups = {}
    /\ calls = {}
    /\ tab_users0 = tab_users
    /\ tab_members = [s \in Sites |-> NoMembers]
    /\ groups_todo = {}
    /\ mcalls = {}
    /\ site_log = <<>>
    /\ exit_code = Running
    /\ run = 1
    /\ sites0 = <<>>
    /\ run1 = NoRun1
    /\ nfaults = 0
    /\ search_failed = FALSE

\* a run of one of the scripts over one site (ad2tabsync's -s SITE, or a
\* server with one site that has an OU)
InitRun ==
    /\ script \in Scripts
    /\ noop \in BOOLEAN
    /\ serviceaccounts \in {{}, {"carol"}}
    /\ \E s \in Sites : common_sites = <<s>>
    /\ site_name = "none"
    /\ pc = "site"
    /\ return_code = 0
    /\ group_list = <<>>
    /\ tableau_all_site_users = NoListing
    /\ ad_all_site_users = <<>>
    /\ diff = [old |-> {}, new |-> {}]
    /\ old_users = {}
    /\ new_users = {}
    /\ tableau_site_users = {}
    /\ new_groups = {}
    /\ old_groups = {}
    /\ calls = {}
    /\ groups_todo = {}
    /\ mcalls = {}
    /\ site_log = <<>>
    /\ exit_code = Running
    /\ run = 1
    /\ sites0 = common_sites
    /\ run1 = NoRun1
    /\ nfaults = 0
    /\ search_failed = FALSE
    /\ last = NoCall
    /\ first = [k \in GroupDNs \cup Sites |-> NoResult]
    /\ ncalls = 0
    /\ MailIdle
    /\ PrunerIdle
    /\ HrmsIdle

\* the full names on the server: alice's is the directory's, the others' differ
InitFullname ==
    tab_fullname = [s \in Sites |-> [n \in Persons |-> IF n = "alice" THEN "ad" ELSE "old"]]

\* The user study: a directory with nested groups and a cycle in which every
\* subset of the accounts may be enabled, and every listing of users on the
\* site of the run, with no workbook or with one workbook that a user of the
\* site owns and that the other users may or may not read.
Init ==
    /\ InitRun
    /\ member = [g \in GroupDNs |->
                    CASE g = "g1" -> {"alice", "g3"}
                      [] g = "g2" -> {"bob"}
                      [] g = "g3" -> {"carol", "g1"}
                      [] OTHER -> {}]
    /\ enabled \in SUBSET Persons
    /\ ou = [s \in Sites |-> IF s = "Sales" THEN {"g1", "g2"} ELSE {"g3"}]
    /\ \E listing \in [Persons -> Roles \cup {Absent}] :
          tab_users = [s \in Sites |-> IF s = common_sites[1] THEN listing ELSE NoListing]
    /\ InitFullname
    /\ \E o \in NamesOf(tab_users[common_sites[1]]) \cup {"none"}, sh \in BOOLEAN :
          /\ o = "none" => ~sh
          /\ wb_owner = [s \in Sites |-> IF s = common_sites[1] THEN o ELSE "none"]
          /\ wb_shared = [s \in Sites |-> s = common_sites[1] /\ sh]
    /\ tab_groups = [s \in Sites |-> {AllUsers, "g1", "F_x"}]
    /\ \E ms \in {{}, NamesOf(tab_users[common_sites[1]])} :
          tab_members = [s \in Sites |->
                            IF s = common_sites[1]
                            THEN [NoMembers EXCEPT !["g1"] = ms]
                            ELSE NoMembers]
    /\ tab_users0 = tab_users

\* the steps of ad2tabsync.py
StepsAD2TabSync ==
    \/ SyncSite /\ UNCHANGED <<toolVars, callVars, mailVars, memVars, procVars>>
    \/ SyncSiteUserDiff /\ UNCHANGED <<toolVars, callVars, mailVars, memVars, procVars>>
    \/ SyncSiteUserOld /\ UNCHANGED <<toolVars, callVars, mailVars, groups_todo, mcalls, procVars>>
    \/ SyncSiteUserNew /\ UNCHANGED <<toolVars, callVars, mailVars, memVars, procVars>>
    \/ SyncSiteUserListUserdata /\ UNCHANGED <<toolVars, callVars, mailVars, memVars, procVars>>
    \/ SyncSiteUserUserdata /\ UNCHANGED <<toolVars, callVars, mailVars, memVars, site_log,
                                           exit_code, run, sites0, run1, search_failed>>
    \/ SyncSiteGroups /\ UNCHANGED <<toolVars, callVars, mailVars, groups_todo, mcalls, procVars>>
    \/ SyncSiteMembershipsList /\ UNCHANGED <<toolVars, callVars, mailVars, procVars>>
    \/ SyncSiteMembershipsGroup /\ UNCHANGED <<toolVars, callVars, mailVars, procVars>>
    \/ RunSyncNextSite /\ UNCHANGED <<toolVars, callVars, mailVars>>
    \/ MainExit /\ UNCHANGED <<toolVars, callVars, mailVars>>

\* the steps of tableausync.py
StepsTableausync ==
    \/ TS_Site /\ UNCHANGED <<toolVars, callVars, mailVars, memVars, procVars>>
    \/ TS_SiteUsers /\ UNCHANGED <<toolVars, callVars, mailVars, memVars, procVars>>
    \/ TS_OldUser /\ UNCHANGED <<toolVars, callVars, mailVars, groups_todo, mcalls, procVars>>
    \/ TS_NewUser /\ UNCHANGED <<toolVars, callVars, mailVars, memVars, procVars>>
    \/ TS_ListUserdata /\ UNCHANGED <<toolVars, callVars, mailVars, memVars, procVars>>
    \/ TS_Userdata /\ UNCHANGED <<toolVars, callVars, mailVars, memVars, site_log,
                                  exit_code, run, sites0, run1, search_failed>>
    \/ TS_Groups /\ UNCHANGED <<toolVars, callVars, mailVars, groups_todo, mcalls, procVars>>
    \/ TS_MembershipsList /\ UNCHANGED <<toolVars, callVars, mailVars, procVars>>
    \/ TS_MembershipsGroup /\ UNCHANGED <<toolVars, callVars, mailVars, procVars>>
    \/ TS_NextSite /\ UNCHANGED <<toolVars, callVars, mailVars>>

Next ==
    \/ StepsAD2TabSync
    \/ StepsTableausync

Spec == Init /\ [][Next]_vars

\* The group study: every set of directory groups under the site's OU (the
\* name 'All Users' among them) and every set of groups on the site, which
\* always has its built-in group 'All Users'.
InitGroups ==
    /\ InitRun
    /\ member = [g \in GroupDNs |->
                    CASE g = "g1" -> {"alice", "g3"}
                      [] g = "g2" -> {"bob"}
                      [] g = "g3" -> {"carol", "g1"}
                      [] OTHER -> {}]
    /\ enabled = {"alice", "bob"}
    /\ \E gs \in SUBSET GroupDNs :
          ou = [s \in Sites |-> IF s = common_sites[1] THEN gs ELSE {}]
    /\ tab_users = [s \in Sites |->
                       IF s = common_sites[1]
                       THEN [n \in Persons |-> IF n = "bob" THEN Absent ELSE "Interactor"]
                       ELSE NoListing]
    /\ InitFullname
    /\ wb_owner = [s \in Sites |-> "none"]
    /\ wb_shared = [s \in Sites |-> FALSE]
    /\ \E gs \in SUBSET (TabGroupNames \ {AllUsers}) :
          /\ tab_groups = [s \in Sites |->
                              IF s = common_sites[1] THEN gs \cup {AllUsers} ELSE {AllUsers}]
          /\ tab_members = [s \in Sites |->
                               IF s = common_sites[1]
                               THEN [g \in TabGroupNames |->
                                        IF g \in gs THEN {"carol"} ELSE {}]
                               ELSE NoMembers]
    /\ tab_users0 = tab_users

SpecGroups == InitGroups /\ [][Next]_vars

----------------------------------------------------------------------------
(* SpecRun: processes of ad2tabsync.py over two sites, with faults *)

\* a process went through every common site and none of them raised
Completed(log) ==
    /\ Len(log) = Len(sites0)
    /\ \A i \in 1..Len(log) : ~log[i].raised


\* the positions inside _sync_site
InSite == {"user_diff", "users", "userdata", "memberships", "members"}

\* a call of the Tableau client raises inside _sync_site (ServerResponseError,
\* a connection error, ...): the exception leaves _sync_site
SyncSiteRaises ==
    /\ script = "ad2tabsync"
    /\ pc \in InSite
    /\ nfaults < MaxFaults
    /\ nfaults' = nfaults + 1
    /\ pc' = "failed"
    /\ UNCHANGED <<adVars, runVarsButPc, tabVars, localVars, histVars, memVars>>
    /\ UNCHANGED <<site_log, exit_code, run, sites0, run1, search_failed>>

\* a _search that lets the exception of the search pass: run_sync's handler
\* catches it like any fault of the site
SearchFailsCaught ==
    /\ script = "ad2tabsync"
    /\ pc \in InSite
    /\ nfaults < MaxFaults
    /\ nfaults' = nfaults + 1
    /\ search_failed' = TRUE
    /\ pc' = "failed"
    /\ UNCHANGED <<adVars, runVarsButPc, tabVars, localVars, histVars, memVars>>
    /\ UNCHANGED <<site_log, exit_code, run, sites0, run1>>

\* AD._search: the search raises, the handler logs and calls sys.exit()
\* with no argument.  SystemExit is no Exception, so run_sync's handler lets
\* it pass and the process ends with the status of sys.exit(): 0.
SearchFails ==
    /\ script = "ad2tabsync"
    /\ pc \in InSite
    /\ nfaults < MaxFaults
    /\ nfaults' = nfaults + 1
    /\ search_failed' = TRUE
    /\ pc' = "exited"
    /\ exit_code' = 0
    /\ UNCHANGED <<adVars, runVarsButPc, tabVars, localVars, histVars, memVars>>
    /\ UNCHANGED <<site_log, run, sites0, run1>>

\* The script is started again after the first process has exited, for all
\* sites or with -s SITE for one of them: a new AD object (with a new default
\* list), a new AD2TabSync, the same configuration, directory and server.
SecondProcess ==
    /\ script = "ad2tabsync"
    /\ pc = "exited"
    /\ run = 1
    /\ run' = 2
    /\ \E site_id \in {"all"} \cup Range(sites0) :
          sites0' = IF site_id = "all" THEN sites0
                    ELSE SelectSeq(sites0, LAMBDA x : x = site_id)
    /\ run1' = [exit_code |-> exit_code, site_log |-> site_log,
                 completed |-> Completed(site_log),
                 calls |-> calls, mcalls |-> mcalls]
    /\ group_list' = <<>>
    /\ common_sites' = sites0'
    /\ site_name' = "none"
    /\ pc' = "site"
    /\ return_code' = 0
    /\ exit_code' = Running
    /\ site_log' = <<>>
    /\ tableau_all_site_users' = NoListing
    /\ ad_all_site_users' = <<>>
    /\ diff' = [old |-> {}, new |-> {}]
    /\ old_users' = {}
    /\ new_users' = {}
    /\ tableau_site_users' = {}
    /\ new_groups' = {}
    /\ old_groups' = {}
    /\ groups_todo' = {}
    /\ calls' = {}
    /\ mcalls' = {}
    /\ tab_users0' = tab_users
    /\ UNCHANGED <<member, enabled, ou, script, noop, serviceaccounts, tabVars,
                   tab_members, nfaults>>
    /\ search_failed' = FALSE

\* The directories of the study: a cycle that spans the OUs of the two sites,
\* and two groups of two sites that share a nested group kept outside the OUs.
RunDirectories ==
    { [member |-> [g \in GroupDNs |->
                      CASE g = "g1" -> {"alice", "g3"}
                        [] g = "g2" -> {"bob"}
                        [] g = "g3" -> {"carol", "g1"}
                        [] OTHER -> {}],
       ou |-> [s \in Sites |-> IF s = "Sales" THEN {"g1", "g2"} ELSE {"g3"}]],
      [member |-> [g \in GroupDNs |->
                      CASE g = "g1" -> {"alice", "g3"}
                        [] g = "g2" -> {"bob", "g3"}
                        [] g = "g3" -> {"carol"}
                        [] OTHER -> {}],
       ou |-> [s \in Sites |-> IF s = "Sales" THEN {"g1"} ELSE {"g2"}]] }

\* the user listings a site starts with
RunListings ==
    {l \in [Persons -> Roles \cup {Absent}] :
        /\ l["alice"] \in {"Interactor", Absent}
        /\ l["bob"] \in {"ServerAdministrator", Absent}}

InitProcess ==
    /\ script = "ad2tabsync"
    /\ noop = TRUE
    /\ serviceaccounts = {}
    /\ common_sites \in {<<"Sales", "ERS">>, <<"ERS", "Sales">>}
    /\ site_name = "none"
    /\ pc = "site"
    /\ return_code = 0
    /\ group_list = <<>>
    /\ tableau_all_site_users = NoListing
    /\ ad_all_site_users = <<>>
    /\ diff = [old |-> {}, new |-> {}]
    /\ old_users = {}
    /\ new_users = {}
    /\ tableau_site_users = {}
    /\ new_groups = {}
    /\ old_groups = {}
    /\ calls = {}
    /\ groups_todo = {}
    /\ mcalls = {}
    /\ site_log = <<>>
    /\ exit_code = Running
    /\ run = 1
    /\ sites0 = common_sites
    /\ run1 = NoRun1
    /\ nfaults = 0
    /\ search_failed = FALSE
    /\ last = NoCall
    /\ first = [k \in GroupDNs \cup Sites |-> NoResult]
    /\ ncalls = 0
    /\ MailIdle
    /\ PrunerIdle
    /\ HrmsIdle

InitRunStudy ==
    /\ InitProcess
    /\ \E d \in RunDirectories : member = d.member /\ ou = d.ou
    /\ enabled \in {Persons, {"alice", "carol"}}
    /\ \E l \in RunListings : tab_users = [s \in Sites |-> l]
    /\ InitFullname
    /\ \E o \in {"carol", "none"} :
          /\ o # "none" => tab_users["Sales"][o] # Absent
          /\ wb_owner = [s \in Sites |-> o]
    /\ wb_shared = [s \in Sites |-> FALSE]
    /\ tab_groups = [s \in Sites |-> {AllUsers, "g1", "F_x"}]
    /\ \E ms \in {{}, {"carol"}} :
          /\ ms \subseteq NamesOf(tab_users["Sales"])
          /\ tab_members = [s \in Sites |-> [NoMembers EXCEPT !["g1"] = ms]]
    /\ tab_users0 = tab_users

NextRun ==
    \/ StepsAD2TabSync
    \/ SyncSiteRaises /\ UNCHANGED <<toolVars, callVars, mailVars>>
    \/ SearchFails /\ UNCHANGED <<toolVars, callVars, mailVars>>
    \/ SecondProcess /\ UNCHANGED <<toolVars, callVars, mailVars>>

SpecRun == InitRunStudy /\ [][NextRun]_vars

\* The server is shared: while a run is inside a site, another administrator
\* adds an account to the site and to one of its groups, or removes from the
\* site a user that owns no workbook (the server drops it from the groups).
OtherAdministrator ==
    /\ pc \in InSite
    /\ nfaults < MaxFaults
    /\ nfaults' = nfaults + 1
    /\ \E u \in Persons :
          \/ /\ tab_users[site_name][u] = Absent
             /\ \E g \in tab_groups[site_name] \ {AllUsers} :
                   tab_members' = [tab_members EXCEPT ![site_name][g] = @ \cup {u}]
             /\ tab_users' = [tab_users EXCEPT ![site_name][u] = "Interactor"]
          \/ /\ tab_users[site_name][u] \notin {Absent, "ServerAdministrator"}
             /\ wb_owner[site_name] # u
             /\ tab_members' = [tab_members EXCEPT ![site_name] = WithoutUser(@, u)]
             /\ tab_users' = [tab_users EXCEPT ![site_name][u] = Absent]
    /\ UNCHANGED <<adVars, runVars, localVars, histVars, groups_todo, mcalls>>
    /\ UNCHANGED <<tab_fullname, wb_owner, wb_shared, tab_groups>>
    /\ UNCHANGED <<site_log, exit_code, run, sites0, run1, search_failed>>

\* The shared-server study: the runs of the user study that are no dry run,
\* with no service account and no workbook, and one step of another
\* administrator.
InitShared ==
    /\ Init
    /\ noop
    /\ serviceaccounts = {}
    /\ \A s \in Sites : wb_owner[s] = "none"

NextShared ==
    \/ Next
    \/ OtherAdministrator /\ UNCHANGED <<toolVars, callVars, mailVars>>

SpecShared == InitShared /\ [][NextShared]_vars

----------------------------------------------------------------------------
(* SpecAD: expansion calls on one directory snapshot in one process *)

DirectoryOf(E) == [g \in GroupDNs |-> {x \in ExpGroups \cup ExpPersons : <<g, x>> \in E}]

InitAD ==
    /\ \E E \in SUBSET (ExpGroups \X (ExpGroups \cup ExpPersons)) :
          /\ Cardinality(E) <= MaxEdges
          /\ member = DirectoryOf(E)
    /\ enabled \in SUBSET ExpPersons
    /\ ou = [s \in Sites |-> IF s = "Sales" THEN {"g1", "g2"} ELSE {"g3"}]
    /\ group_list = <<>>
    /\ last = NoCall
    /\ first = [k \in GroupDNs \cup Sites |-> NoResult]
    /\ ncalls = 0
    /\ MailIdle
    /\ PrunerIdle
    /\ HrmsIdle
    /\ SyncIdle

Returned(op, key, r) ==
    /\ group_list' = r.group_list
    /\ last' = [op |-> op, key |-> key, users |-> r.users, ok |-> r.ok]
    /\ first' = IF first[key] = NoResult
                THEN [first EXCEPT ![key] = Range(r.users)]
                ELSE first
    /\ ncalls' = ncalls + 1
    /\ UNCHANGED <<member, enabled, ou, mailVars, syncVars, toolVars>>

\* ad.get_members_by_groupname(name), which is _get_group_members(dn)
CallGetMembers ==
    /\ ncalls < MaxCalls
    /\ \E g \in ExpGroups :
          Returned("get_members_by_groupname", g, GetMembersByGroupname(g, group_list))

\* ad.get_all_site_users(site)
CallGetAllSiteUsers ==
    /\ ncalls < MaxCalls
    /\ \E s \in Sites :
          Returned("get_all_site_users", s, GetAllSiteUsers(s, group_list))

NextAD == CallGetMembers \/ CallGetAllSiteUsers

SpecAD == InitAD /\ [][NextAD]_vars

----------------------------------------------------------------------------
(* SpecPruner: one run of one of the pruners *)

InitPrunerStudy ==
    /\ InitPruner
    /\ HrmsIdle
    /\ MailIdle
    /\ member = [g \in GroupDNs |-> {}]
    /\ enabled = {}
    /\ ou = [s \in Sites |-> {}]
    /\ group_list = <<>>
    /\ last = NoCall
    /\ first = [k \in GroupDNs \cup Sites |-> NoResult]
    /\ ncalls = 0
    /\ SyncIdle

NextPruner ==
    \/ CleanListProjects /\ UNCHANGED <<adVars, callVars, mailVars, syncVars, hrmsVars>>
    \/ CleanOrderPass /\ UNCHANGED <<adVars, callVars, mailVars, syncVars, hrmsVars>>
    \/ CleanProjects /\ UNCHANGED <<adVars, callVars, mailVars, syncVars, hrmsVars>>
    \/ CleanWorkbooks /\ UNCHANGED <<adVars, callVars, mailVars, syncVars, hrmsVars>>
    \/ RmWorkbooks /\ UNCHANGED <<adVars, callVars, mailVars, syncVars, hrmsVars>>
    \/ RmDatasources /\ UNCHANGED <<adVars, callVars, mailVars, syncVars, hrmsVars>>
    \/ RemoveGroupAllUsers /\ UNCHANGED <<adVars, callVars, mailVars, syncVars, hrmsVars>>

SpecPruner == InitPrunerStudy /\ [][NextPruner]_vars

----------------------------------------------------------------------------
(* SpecHrms: daily runs of hrms_report_sender.py *)

InitHrmsStudy ==
    /\ InitHrms
    /\ PrunerIdle
    /\ MailIdle
    /\ member = [g \in GroupDNs |-> {}]
    /\ enabled = {}
    /\ ou = [s \in Sites |-> {}]
    /\ group_list = <<>>
    /\ last = NoCall
    /\ first = [k \in GroupDNs \cup Sites |-> NoResult]
    /\ ncalls = 0
    /\ SyncIdle

NextHrms ==
    \/ HrmsStart /\ UNCHANGED <<adVars, callVars, mailVars, syncVars, prunerVars>>
    \/ HrmsEvaluate /\ UNCHANGED <<adVars, callVars, mailVars, syncVars, prunerVars>>
    \/ DayPasses /\ UNCHANGED <<adVars, callVars, mailVars, syncVars, prunerVars>>

SpecHrms == InitHrmsStudy /\ [][NextHrms]_vars

\* The study of MailStatus: no file at the start
InitMailStatus ==
    /\ HrmsIdle
    /\ PrunerIdle
    /\ MailIdle
    /\ member = [g \in GroupDNs |-> {}]
    /\ enabled = {}
    /\ ou = [s \in Sites |-> {}]
    /\ group_list = <<>>
    /\ last = NoCall
    /\ first = [k \in GroupDNs \cup Sites |-> NoResult]
    /\ ncalls = 0
    /\ SyncIdle

NextMailStatus ==
    \/ StatusLoad /\ UNCHANGED <<adVars, callVars, mailVars, syncVars, prunerVars>>
    \/ StatusSet /\ UNCHANGED <<adVars, callVars, mailVars, syncVars, prunerVars>>
    \/ StatusClean /\ UNCHANGED <<adVars, callVars, mailVars, syncVars, prunerVars>>
    \/ StatusExit /\ UNCHANGED <<adVars, callVars, mailVars, syncVars, prunerVars>>

SpecMailStatus == InitMailStatus /\ [][NextMailStatus]_vars

----------------------------------------------------------------------------
(* SpecDryRun: the runs of ad2tabsync.py and of the pruners with --noop *)

InitDryRun ==
    \/ Init /\ script = "ad2tabsync" /\ ~noop
    \/ InitPrunerStudy /\ tool_noop

NextDryRun ==
    \/ StepsAD2TabSync
    \/ NextPruner

SpecDryRun == InitDryRun /\ [][NextDryRun]_vars

----------------------------------------------------------------------------
(* SpecMail: letters about stale administrators over several days and runs *)

InitMail ==
    /\ MailIdle
    /\ PrunerIdle
    /\ HrmsIdle
    /\ member = [g \in GroupDNs |-> {}]
    /\ enabled = {}
    /\ ou = [s \in Sites |-> {}]
    /\ group_list = <<>>
    /\ last = NoCall
    /\ first = [k \in GroupDNs \cup Sites |-> NoResult]
    /\ ncalls = 0
    /\ SyncIdle

NextMail ==
    \/ SendMailInit /\ UNCHANGED <<adVars, callVars, syncVars, toolVars>>
    \/ SendMailOldServerAdministrator /\ UNCHANGED <<adVars, callVars, syncVars, toolVars>>
    \/ Tick /\ UNCHANGED <<adVars, callVars, syncVars, toolVars>>

SpecMail == InitMail /\ [][NextMail]_vars

----------------------------------------------------------------------------
(* Claims about the expansion *)

\* C1: on a directory whose group graph has a cycle, every expansion call
\* terminates (it never nests deeper than a terminating run can) and no
\* account name occurs twice in the list it returns.
C1_CycleTerminatesNoDuplicates ==
    (HasCycle /\ last.op # "none") => (last.ok /\ NoDuplicates(last.users))

\* C1 witness: an expansion started on a group of a two-group cycle (each
\* contains the other) returned a user that both groups list.
C1_Witness ==
    /\ last.op = "get_members_by_groupname"
    /\ \E h \in ExpGroups \ {last.key} :
          /\ h \in member[last.key]
          /\ last.key \in member[h]
          /\ \E p \in Range(last.users) : p \in member[last.key] \cap member[h]

\* C2: a second expansion for the same group (or site) on the same snapshot
\* returns the same set of account names as the first one did.
C2_ExpansionIdempotent ==
    last.op # "none" => Range(last.users) = first[last.key]

\* C3: an expansion returns exactly the enabled persons that are direct or
\* nested members of the group (of the site's groups).
C3_ExpansionExact ==
    /\ last.op = "get_members_by_groupname"
          => Range(last.users) = EnabledMembers(last.key)
    /\ last.op = "get_all_site_users"
          => Range(last.users) = EnabledSiteMembers(last.key)

----------------------------------------------------------------------------
(* Claims about the user phase and the group phase *)

\* the positions of a run at which the differences of the site are computed
AfterDiff == {"users", "userdata", "memberships", "failed", "crashed", "done"}
\* ... and at which the loops over the stale and the fresh users are over (a
\* run that raised may have left them half-way, so it is not among them)
AfterUserLoops == {"userdata", "memberships", "done"}

\* the target names the script diffs against: every user of the site in
\* ad2tabsync, the licensed ones in tableausync
TargetNames0 ==
    IF script = "tableausync"
    THEN LicensedOf(tab_users0[site_name])
    ELSE NamesOf(tab_users0[site_name])
DirectoryNames == Range(ad_all_site_users)

CallsAbout(u) == {c \in calls : c.site = site_name /\ c.arg = u /\ c.op # "groups.create"
                                 /\ c.op # "groups.delete"}
OpsAbout(u) == {c.op : c \in CallsAbout(u)}

\* C4: the stale set is T - D - S and the fresh set is D - T - S, for the
\* target names T, the directory names D and the service accounts S of the run.
C4_DiffSets ==
    pc \in AfterDiff =>
        /\ diff.old = (TargetNames0 \ DirectoryNames) \ serviceaccounts
        /\ diff.new = (DirectoryNames \ TargetNames0) \ serviceaccounts

\* C5: no user call (add, update, remove) is ever issued for a service account.
C5_ServiceAccountsUntouched ==
    \A c \in calls : c.op \in UserOps => c.arg \notin serviceaccounts

\* C6: in ad2tabsync a stale user whose role is ServerAdministrator keeps that
\* role (it is neither deleted nor demoted), the handling of stale users issues
\* nothing for it but the letter (the attribute pass, which is not part of that
\* handling, may still update its full name or fail to fetch its detail), and
\* the letter is asked for once the stale loop of a run that is no dry run has
\* reached the user.
C6_StaleAdministratorKept ==
    (script = "ad2tabsync" /\ pc \in AfterDiff) =>
        \A u \in diff.old :
            tab_users0[site_name][u] = "ServerAdministrator" =>
                /\ tab_users[site_name][u] = "ServerAdministrator"
                /\ OpsAbout(u) \subseteq {"send_mail_old_serveradministrator",
                                          "users.update:fullname",
                                          "users.get_by_id:raised"}
                /\ (noop /\ site_name # "ERS" /\ u \notin old_users)
                      => "send_mail_old_serveradministrator" \in OpsAbout(u)
                /\ ~noop => OpsAbout(u) \subseteq {"users.get_by_id:raised"}

\* C6 witness: a run of ad2tabsync has ended in which the stale loop met a
\* stale administrator that owns a workbook, and asked for the letter.
C6_Witness ==
    /\ script = "ad2tabsync"
    /\ pc = "done"
    /\ \E u \in diff.old :
          /\ tab_users0[site_name][u] = "ServerAdministrator"
          /\ wb_owner[site_name] = u
          /\ "send_mail_old_serveradministrator" \in OpsAbout(u)

\* the stale users the stale loop has handled in a run that is no dry run
HandledStale == IF noop /\ site_name # "ERS" THEN diff.old \ old_users ELSE {}
Owns(u) == wb_owner[site_name] = u

\* C8: a stale user that is no administrator and owns a workbook is demoted to
\* Unlicensed and not deleted, with no update when it is Unlicensed already; a
\* stale user that is no administrator and owns no workbook is deleted.
C8_DemoteOwnersDeleteOthers ==
    pc \in AfterDiff =>
        \A u \in HandledStale :
            tab_users0[site_name][u] # "ServerAdministrator" =>
                /\ Owns(u) =>
                      /\ tab_users[site_name][u] = "Unlicensed"
                      /\ "users.remove" \notin OpsAbout(u)
                      /\ "users.update:Unlicensed" \in OpsAbout(u)
                            <=> tab_users0[site_name][u] # "Unlicensed"
                /\ ~Owns(u) =>
                      /\ tab_users[site_name][u] = Absent
                      /\ "users.remove" \in OpsAbout(u)
                      /\ "users.update:Unlicensed" \notin OpsAbout(u)

\* C9: after the user loops of a run that is no dry run, every enabled
\* directory account (no service account) that had an Unlicensed user on the
\* site has the role Interactor, by one update and no create.
C9_UnlicensedPromoted ==
    (pc \in AfterUserLoops /\ noop) =>
        \A u \in DirectoryNames \ serviceaccounts :
            tab_users0[site_name][u] = "Unlicensed" =>
                /\ tab_users[site_name][u] = "Interactor"
                /\ "users.update:Interactor" \in OpsAbout(u)
                /\ "users.add" \notin OpsAbout(u)

\* C10: 'All Users' is never in the list of groups to delete, no group call
\* creates or deletes it, and the site keeps it.
C10_AllUsersReserved ==
    /\ AllUsers \notin old_groups
    /\ \A c \in calls : c.op \in {"groups.create", "groups.delete"} => c.arg # AllUsers
    /\ \A s \in Sites : AllUsers \in tab_groups[s]

\* C10 witness: a group phase has created and deleted groups on a site whose
\* directory OU holds no group named 'All Users'.
C10_Witness ==
    /\ pc = "memberships"
    /\ AllUsers \notin ou[site_name]
    /\ \E g \in new_groups : Call("groups.create", g) \in calls
    /\ \E g \in old_groups : Call("groups.delete", g) \in calls

\* C7: a call for a subject with no earlier letter calls send_mail once; a call
\* at most 3 days after the subject's last letter does not call it; a call 4
\* days or more after it calls it once and moves the timestamp to the time of
\* the call; no other subject's timestamp changes; and the subject's timestamp
\* changes only when the letter was handed to the mail server.
C7_RateLimited ==
    mail_event.name # "none" =>
        LET e == mail_event
            before == e.prev[e.name]
        IN  /\ before = Never => e.sends = 1
            /\ (before # Never /\ e.at - before <= RateLimitDays * TicksPerDay)
                  => e.sends = 0
            /\ (before # Never /\ e.at - before >= (RateLimitDays + 1) * TicksPerDay)
                  => e.sends = 1 /\ sent_state[e.name] = e.at
            /\ \A m \in MailSubjects \ {e.name} : sent_state[m] = e.prev[m]
            /\ sent_state[e.name] # before => e.outcome = "delivered"

----------------------------------------------------------------------------
(* Claims about whole runs *)

\* the calls that change the server's users or groups
MutatingOps == UserOps \cup {"groups.create", "groups.delete"}
MutatingCalls(cs) == {c \in cs : c.op \in MutatingOps}

\* C11: when a first process that was no dry run has reconciled every site
\* without an error, a second process on the same directory and server issues
\* no mutating call: no user or group call and no add_user or remove_user.
C11_FixedPoint ==
    (run = 2 /\ noop /\ run1.exit_code = 0 /\ run1.completed) =>
        /\ MutatingCalls(calls) = {}
        /\ mcalls = {}

----------------------------------------------------------------------------
(* Claims about the permission pruners *)

\* the sites on which a denylist entry is configured
ConfiguredSites(e) == Range(e.sites)

\* the workbook sweep for entry i of the denylist on this site is through
WorkbooksSwept(site, i) ==
    ~\E k \in 1..Len(tool_todo) :
        /\ tool_todo[k].site = site
        /\ tool_todo[k].step \in {"workbooks", "rm_workbooks", "all_workbooks"}
        /\ tool_todo[k].entry \in {0, i}

\* C12: for a denylisted principal that exists on the server and has an
\* exemption tag configured, no delete-permission call is ever issued for its
\* rule on a workbook carrying the tag, and once the workbook sweep for the
\* principal is through on a site in a run that is no dry run, no workbook of
\* the site without the tag has a rule for the principal left.
C12_ExemptionTag ==
    \A i \in 1..Len(conf) : \A w \in Workbooks :
        LET e == conf[i]
        IN  (e.tag = KeepTag /\ Found(e)) =>
                \A site \in ConfiguredSites(e) :
                    /\ KeepTag \in res_tags[site][w] =>
                          ~\E c \in tool_calls : /\ c.site = site /\ c.item = w
                                                 /\ c.grantee = e.name
                    /\ (WorkbooksSwept(site, i) /\ ~tool_noop
                            /\ KeepTag \notin res_tags[site][w]) =>
                          e.name \notin res_grants[site][w]

\* a finished run in which the tagged workbook w1 kept the rule of a
\* denylisted principal and the same rule of the untagged w2 was deleted
C12_Witness ==
    /\ tool_pc = "done" /\ ~tool_noop
    /\ \E i \in 1..Len(conf) : \E site \in ConfiguredSites(conf[i]) :
          /\ conf[i].tag = KeepTag /\ Found(conf[i])
          /\ KeepTag \in res_tags[site]["w1"]
          /\ conf[i].name \in res_grants[site]["w1"]
          /\ \E c \in tool_calls : /\ c.site = site /\ c.item = "w2"
                                    /\ c.grantee = conf[i].name

----------------------------------------------------------------------------
(* Claims about the mails to leaving users *)

\* the urgency of a milestone
Urgency(milestone) ==
    IF milestone = "first_mail" THEN 1 ELSE IF milestone = "second_mail" THEN 2 ELSE 3

\* C13: an evaluation sends a mail only for a milestone that is not marked,
\* and never for a milestone less urgent than one already marked for the user.
C13_MostUrgentFirst ==
    hrms_event.mail # "none" =>
        /\ hrms_event.mail \notin hrms_event.before
        /\ \A m \in hrms_event.before : Urgency(m) < Urgency(hrms_event.mail)

----------------------------------------------------------------------------
(* Claims about run_sync and the exit of the process *)

SomeSiteRaised(log) == \E i \in 1..Len(log) : log[i].raised

\* C14: when run_sync returns, its loop has been through every common site in
\* order, whether or not an earlier site raised, and the return code is
\* non-zero exactly when some site raised.
C14_SiteFaultCaught ==
    (script = "ad2tabsync" /\ pc = "done") =>
        /\ Len(site_log) = Len(sites0)
        /\ \A i \in 1..Len(site_log) : site_log[i].site = sites0[i]
        /\ (return_code # 0) <=> SomeSiteRaised(site_log)

\* the first of two sites raised and the second was reconciled with calls
C14_Witness ==
    /\ script = "ad2tabsync" /\ pc = "done"
    /\ Len(site_log) = 2
    /\ site_log[1].raised /\ ~site_log[2].raised
    /\ return_code = 1
    /\ \E c \in calls : c.site = site_log[2].site /\ c.op \in MutatingOps

\* C15: when the process has exited, its exit status is 0 exactly when every
\* common site was reconciled and none raised; a run that a directory fault
\* ended early exits with a non-zero status.
C15_ExitCode ==
    (script = "ad2tabsync" /\ pc = "exited") =>
        ((exit_code = 0) <=> Completed(site_log))

\* C16: once a directory search of a process has failed, that process issues
\* no further mutating call, for the current site or a later one.
C16_DirectoryFaultFatal ==
    [][search_failed => \/ run' # run
                        \/ /\ MutatingCalls(calls') = MutatingCalls(calls)
                           /\ mcalls' = mcalls]_vars

\* a search failed in the first site after the process had issued calls, with
\* another site still to reconcile
C16_Witness ==
    /\ search_failed
    /\ pc = "exited"
    /\ MutatingCalls(calls) # {}
    /\ site_log = <<>>
    /\ common_sites # <<>>

----------------------------------------------------------------------------
(* Claims about dry runs *)

\* the sweep of this kind is through on the site for entry i of the denylist
StepDone(steps, site, i) ==
    ~\E k \in 1..Len(tool_todo) :
        /\ tool_todo[k].site = site
        /\ tool_todo[k].step \in steps
        /\ tool_todo[k].entry \in {0, i}

Logged(site, item, grantee) ==
    \E l \in tool_log : /\ l.level = "info" /\ l.site = site
                        /\ l.item = item /\ l.grantee = grantee

----------------------------------------------------------------------------
(* Claims about the removal of stale users *)

RaisedOn(site, user) ==
    \E c \in calls : c.op = "users.remove:raised" /\ c.site = site /\ c.arg = user

\* C18: a users.remove that the server answers with code 409003 is not raised
\* out of the user phase, and while the user phase of a site goes on no
\* users.remove of that site has raised.
C18_AlreadyAbsentIsSuccess ==
    /\ \A c \in calls : c.op = "users.remove:409003" => ~RaisedOn(c.site, c.arg)
    /\ pc = "users" => \A u \in Persons : ~RaisedOn(site_name, u)

\* C19: no users.remove and no demotion to Unlicensed is issued on a site for
\* an account that is an enabled direct or nested member of a group under the
\* site's OU, in whichever order the sites are reconciled.
C19_MembersNeverPruned ==
    \A c \in calls :
        c.op \in {"users.remove", "users.update:Unlicensed"} =>
            c.arg \notin EnabledSiteMembers(c.site)

----------------------------------------------------------------------------
(* Claims about the memberships *)

\* C20: when a reconciliation of a site that is no dry run is through its
\* membership phase, every group of the site other than 'All Users' that has
\* a directory group of its name has as members exactly the enabled direct or
\* nested members of that directory group that are users of the site.
C20_MembershipsExact ==
    (script = "ad2tabsync" /\ noop /\ pc = "members" /\ groups_todo = {}) =>
        \A g \in (tab_groups[site_name] \cap GroupDNs) \ {AllUsers} :
            tab_members[site_name][g] =
                EnabledMembers(g) \cap NamesOf(tab_users[site_name])

----------------------------------------------------------------------------
(* Claims about members that are not users of the site *)

\* the group the next round of the membership loop is about, when the
\* directory has a group of its name
AtGroup(group) ==
    /\ pc = "members"
    /\ groups_todo # {}
    /\ group = FirstGroup(groups_todo)
    /\ GetGroupBySamaccountname(group) # <<>>

\* the names of the user listing in which the membership loop looks up ids
UserListing ==
    IF script = "ad2tabsync"
    THEN tableau_site_users
    ELSE NamesOf(tableau_all_site_users)

\* C21: a round of the membership loop over a group the directory knows does
\* not raise, whether or not the new and the old members are in the user
\* listing: the group leaves the groups to do, the loop goes on, and when the
\* run is no dry run exactly the new members that are in the listing are
\* added and exactly the old members that are in it are removed.
C21_NotFoundSkipped ==
    [][\A group \in TabGroupNames :
          (AtGroup(group) /\ nfaults' = nfaults) =>
              LET ad_members_set ==
                      Range(GetMembersByGroupname(group, group_list).users)
                  before == tab_members[site_name][group]
                  after == tab_members'[site_name][group]
              IN  /\ pc' = "members"
                  /\ groups_todo' = groups_todo \ {group}
                  /\ noop =>
                        after = (before \ ((before \ ad_members_set) \cap UserListing))
                                   \cup ((ad_members_set \ before) \cap UserListing)]_vars

----------------------------------------------------------------------------
(* Claims about the site ERS *)

UserDeleteOps == {"users.remove", "users.remove:409003", "users.remove:raised"}

\* C22: on the site ERS no call deletes a user or demotes one to Unlicensed,
\* no call deletes a group named F_* or A_*, and no call adds a member to
\* such a group or removes one from it.
C22_CarveOut ==
    /\ \A c \in calls :
          c.site = "ERS" =>
              /\ c.op \notin UserDeleteOps \cup {"users.update:Unlicensed"}
              /\ c.op = "groups.delete" => ~StartsWithF_or_A(c.arg)
    /\ \A c \in mcalls : c.site = "ERS" => ~StartsWithF_or_A(c.group)

\* C22 witness: a run that is no dry run is through the membership phase of
\* ERS and has issued group and membership calls there; the site had a stale
\* user, and its group F_x, which the directory has under the OU of ERS, has
\* a member that the directory group does not have.
C22_Witness ==
    /\ site_name = "ERS" /\ noop
    /\ pc = "members" /\ groups_todo = {}
    /\ diff.old # {}
    /\ "F_x" \in ou["ERS"] \cap tab_groups["ERS"]
    /\ tab_members["ERS"]["F_x"] \ EnabledMembers("F_x") # {}
    /\ \E c \in calls : c.site = "ERS" /\ c.op = "groups.delete"
    /\ \E c \in mcalls : c.site = "ERS"

----------------------------------------------------------------------------
(* Claims about the projects of the pruner *)

\* every project of the sequence comes after its parent, if it has one
ParentsFirst(site, placed) ==
    \A i \in 1..Len(placed) :
        proj_parent[site][placed[i]] # NoParent =>
            \E j \in 1..(i - 1) : placed[j] = proj_parent[site][placed[i]]

\* C23: the ordering loop of clean_tableau_permissions.py never runs without
\* end, and when it is over tableau_projects_by_parent holds every project
\* of the site once, each after its parent.
C23_OrderTerminates ==
    /\ tool_pc # "hung"
    /\ (tool = "clean" /\ AtStep("projects")) =>
           LET site == Head(tool_todo).site
           IN  /\ Range(tableau_projects_by_parent) = Projects
               /\ NoDuplicates(tableau_projects_by_parent)
               /\ ParentsFirst(site, tableau_projects_by_parent)

\* the project sweep of this site is through (or the site has none)
ProjectsSwept(site) ==
    ~\E k \in 1..Len(tool_todo) :
        /\ tool_todo[k].site = site
        /\ tool_todo[k].step \in {"list", "order", "projects"}

\* the grantees the configuration of the site denies on projects and that
\* the server has under that name and kind
Denylisted(site) ==
    {g \in Principals : FoundEntries(SiteConf(site, conf_projects), g) # {}}

\* C24: every projects.delete call of clean_tableau_permissions.py is for a
\* grant of a denylisted grantee of the call's site, once the project sweep of
\* a site is through in a run that is no dry run no project of the site has a
\* grant of a denylisted grantee in any category, and a site that is not in
\* the configuration gets no call ...
C24_Swept ==
    tool = "clean" =>
        /\ \A c \in tool_calls :
              c.op \in {"projects.delete:" \o cat : cat \in Categories} =>
                  c.grantee \in Denylisted(c.site)
        /\ \A site \in Range(PSites) :
              /\ (ProjectsSwept(site) /\ ~tool_noop /\ Denylisted(site) # {}) =>
                    \A p \in Projects, cat \in Categories :
                        proj_grants[site][p][cat] \cap Denylisted(site) = {}
              /\ (SiteConf(site, conf_projects) \cup SiteConf(site, Range(conf)) = {}) =>
                    ~\E c \in tool_calls : c.site = site
\* ... and no step takes a grant of another grantee from a project, or any
\* grant from a project or a workbook of a site that is not in the
\* configuration.
C24_Kept ==
    tool = "clean" =>
        \A site \in Range(PSites) :
            /\ \A p \in Projects, cat \in Categories :
                  proj_grants[site][p][cat] \ Denylisted(site)
                      \subseteq proj_grants'[site][p][cat]
            /\ (SiteConf(site, conf_projects) \cup SiteConf(site, Range(conf)) = {}) =>
                  /\ proj_grants'[site] = proj_grants[site]
                  /\ res_grants'[site] = res_grants[site]
C24_ProjectsExact == []C24_Swept /\ [][C24_Kept]_vars

\* C24 witness: a run that is no dry run is over; on s1 a project had grants
\* of a denylisted and of another grantee in two categories, the calls for
\* the first were issued and the grants of the second are still there; s2,
\* whose projects have the same grants, is not in the configuration.
C24_Witness ==
    /\ tool = "clean" /\ ~tool_noop /\ tool_pc = "done"
    /\ Denylisted("s1") = {"All Users"}
    /\ SiteConf("s2", conf_projects) \cup SiteConf("s2", Range(conf)) = {}
    /\ \A cat \in {"lens", "workbook"} :
          /\ \E c \in tool_calls : /\ c.op = "projects.delete:" \o cat
                                   /\ c.site = "s1" /\ c.item = "p1"
                                   /\ c.grantee = "All Users"
          /\ proj_grants["s1"]["p1"][cat] = {"guest"}
          /\ proj_grants["s2"]["p1"][cat] = {"All Users", "guest"}

----------------------------------------------------------------------------
(* Claims about the data sources *)

\* the data-source sweep for entry i of the denylist on this site is through
DatasourcesSwept(site, i) ==
    ~\E k \in 1..Len(tool_todo) :
        /\ tool_todo[k].site = site
        /\ tool_todo[k].step = "rm_datasources"
        /\ tool_todo[k].entry = i

\* C25: no run of rm_guest_allusers_from_permissions.py ends in an exception,
\* every datasources.delete_permission call is for a data source that has no
\* exemption tag and has a grant of the denylisted principal, and once the
\* data-source sweep for a principal is through on a site in a run that is no
\* dry run no data source without the tag has a grant of the principal left.
C25_SameDatasource ==
    tool = "rm_guest" =>
        /\ tool_pc # "crashed"
        /\ \A c \in tool_calls :
              c.op = "datasources.delete_permission" => c.item \in Datasources
        /\ \A i \in 1..Len(conf) : \A site \in Range(conf[i].sites) :
              \A d \in Datasources :
                  LET e == conf[i]
                  IN  /\ (Found(e) /\ e.tag \in res_tags[site][d]) =>
                            ~\E c \in tool_calls : /\ c.site = site /\ c.item = d
                                                   /\ c.grantee = e.name
                      /\ (Found(e) /\ DatasourcesSwept(site, i) /\ ~tool_noop
                              /\ e.tag \notin res_tags[site][d]) =>
                            e.name \notin res_grants[site][d]

----------------------------------------------------------------------------
(* Claims about MailStatus *)

\* C26: while a MailStatus object lives, the file holds what the object
\* holds, and for every user the milestones whose get_*_mail_state is true
\* are exactly those set since the user was last cleaned, whatever was set or
\* cleaned for the other user.
C26_StatusPersisted ==
    hrms_pc = "status" =>
        /\ mail_states_file = mail_states
        /\ \A u \in Range(Subjects) : mail_states[u] = Range(mails_sent[u])

\* C26 witness: u2, who had milestones set, has just been cleaned, and u1
\* keeps the two milestones set for u1.
C26_Witness ==
    /\ hrms_pc = "status"
    /\ hrms_event.name = "u2" /\ hrms_event.mail = "clean"
    /\ Cardinality(hrms_event.before) = 2
    /\ mail_states["u2"] = {}
    /\ mail_states["u1"] = {"first_mail", "third_mail"}

----------------------------------------------------------------------------
(* Claims about the milestone mails *)

\* the last element of a non-empty sequence
Last(seq) == seq[Len(seq)]

\* C27: no user has had the mail of a milestone twice (in the study no mail
\* follows a clean), no user is evaluated twice in a run, and in every step,
\* for every user: at most one mail is sent, it is sent in the evaluation of
\* that user, for a milestone whose flag was not set, a flag is set only for
\* the milestone whose mail the step has sent, and a send that raises sets
\* no flag.
C27_Inv ==
    /\ \A u \in Range(Subjects) : NoDuplicates(mails_sent[u])
    /\ NoDuplicates(report_data)
C27_Step ==
    \A u \in Range(Subjects) :
        /\ \/ mails_sent'[u] = mails_sent[u]
           \/ /\ Len(mails_sent'[u]) = Len(mails_sent[u]) + 1
              /\ SubSeq(mails_sent'[u], 1, Len(mails_sent[u])) = mails_sent[u]
              /\ Last(mails_sent'[u]) \notin mail_states[u]
              /\ report_data # <<>> /\ u = Head(report_data)
              /\ report_data' = Tail(report_data)
        /\ mail_states'[u] \ mail_states[u] \subseteq
              (IF mails_sent'[u] = mails_sent[u] THEN {}
               ELSE {Last(mails_sent'[u])})
        /\ hrms_event'.outcome = "raised" => mail_states' = mail_states
C28_Step ==
    (hrms_pc = "run" /\ report_data # <<>>) =>
        LET username == Head(report_data)
        IN  /\ days_left[username] < -5 =>
                  /\ mails_sent' = mails_sent
                  /\ mail_states'[username] = {}
                  /\ mail_states_file'[username] = {}
                  /\ \A u \in Range(Subjects) \ {username} :
                        mail_states'[u] = mail_states[u]
            /\ (days_left[username] >= -5 /\ ~tableau_resources[username]) =>
                  /\ mails_sent' = mails_sent
                  /\ mail_states' = mail_states
                  /\ mail_states_file' = mail_states_file
C28_ClearOrIgnore == [][C28_Step]_vars

----------------------------------------------------------------------------
(* Claims about the attribute pass *)

RaisedGet(site, user) ==
    \E c \in calls : c.op = "users.get_by_id:raised" /\ c.site = site /\ c.arg = user

\* the attribute pass of the site is through
AfterUserdata ==
    \/ pc = "userdata" /\ tableau_site_users = {}
    \/ pc \in {"memberships", "members"}

\* C29: a round of the attribute pass never ends the pass, whether or not
\* users.get_by_id raises: the loop goes on with the other users; and when
\* the pass of a run that is no dry run is through, every licensed user of
\* the site that is no service account, has a directory account, and whose
\* detail was fetched has the directory's full name.
C29_Step ==
    (pc = "userdata" /\ tableau_site_users # {}) =>
        /\ pc' = "userdata"
        /\ \E user \in tableau_site_users :
              tableau_site_users' = tableau_site_users \ {user}
C29_Inv ==
    (noop /\ AfterUserdata) =>
        \A u \in LicensedOf(tab_users[site_name]) :
            (/\ ~\E a \in serviceaccounts : IsSubstring(u, a)
             /\ GetUserBySamaccountname(u) # <<>>
             /\ ~RaisedGet(site_name, u)) =>
                tab_fullname[site_name][u] = "ad"
C29_OneUserSkipped == []C29_Inv /\ [][C29_Step]_vars

----------------------------------------------------------------------------
(* Claims about the end of the group phase *)

\* the group phase of the site is the next thing the run does
AtGroupPhase == pc = "userdata" /\ tableau_site_users = {}

\* C30: whatever groups the site's directory OU and the site hold, the group
\* phase comes to its end without an exception and hands over to the
\* membership phase of the site.
C30_Step == AtGroupPhase => pc' = "memberships"
C30_GroupPhaseCompletes == [][C30_Step]_vars

====
